---- MODULE Spec2Model ----
(***************************************************************************)
(* StaySphere: the heuristic pricing, search parsing and ranking code of   *)
(* the rental marketplace, modelled from the JavaScript sources.           *)
(*                                                                         *)
(* JavaScript numbers are modelled as exact rationals extended with NaN    *)
(* and the two infinities; the values undefined, "an object or function"   *)
(* and "a string that is not a numeral" are kept apart because the code's  *)
(* `||` defaults, `+` and Math.* treat them differently.  Floating-point   *)
(* rounding error is not modelled.                                         *)
(***************************************************************************)
EXTENDS Integers, Sequences, FiniteSets, TLC

VARIABLES rentInput, rentResult, scoreInput, scoreResult, query, filters,
          properties, storeFails, recRequest, recResponse,
          marketLocation, marketResult,
          propertyDoc, nextImageId, updRequest, updResponse,
          searchRequest, searchResponse,
          savedProperties, saves, inflight,
          openaiConfigured, openaiQuotaExceeded, envQuotaExceeded, aiRequest, aiResponse,
          messages, msgRequest, msgResponse,
          user, token, loading, storedToken, effectDue, pendingChecks, authResult,
          searchHistory, searchClock, histRequest, histResponse

rentVars == <<rentInput, rentResult>>

scoreVars == <<scoreInput, scoreResult>>

parseVars == <<query, filters>>

\* the Property collection and whether its queries are rejected
storeVars == <<properties, storeFails>>

recVars == <<recRequest, recResponse>>

marketVars == <<marketLocation, marketResult>>

\* the property the update endpoints work on, the request and its answer
updateVars == <<propertyDoc, nextImageId, updRequest, updResponse>>

searchVars == <<searchRequest, searchResponse>>

\* the users' saved lists, the properties' save counters and the save/unsave requests in progress
saveVars == <<savedProperties, saves, inflight>>

\* routes/ai.js: the OpenAI client, the quota flags of the module and the environment, the last LLM-backed request and its answer
aiVars == <<openaiConfigured, openaiQuotaExceeded, envQuotaExceeded, aiRequest, aiResponse>>

\* models/Message.js, routes/messages.js, routes/properties.js: the stored messages, the last request to a message endpoint and its answer
messageVars == <<messages, msgRequest, msgResponse>>

\* client/src/contexts/AuthContext.js: the state of AuthProvider, the token in localStorage, whether the effect on [token] is due, and the /auth/me requests in flight, and what the last login or register call returned
authVars == <<user, token, loading, storedToken, effectDue, pendingChecks, authResult>>

\* routes/search.js, routes/users.js: the user's stored searchHistory (each entry by its timestamp), the timestamp of the latest recorded search, the last request that touches the history and its answer
historyVars == <<searchHistory, searchClock, histRequest, histResponse>>

\* the variables of the other components, which a component's step leaves alone
notRentVars == <<scoreVars, parseVars, storeVars, recVars, marketVars, updateVars, searchVars,
  saveVars,
  aiVars,
  messageVars,
  authVars,
  historyVars>>

notScoreVars == <<rentVars, parseVars, storeVars, recVars, marketVars, updateVars, searchVars,
  saveVars,
  aiVars,
  messageVars,
  authVars,
  historyVars>>

notParseVars == <<rentVars, scoreVars, storeVars, recVars, marketVars, updateVars, searchVars,
  saveVars,
  aiVars,
  messageVars,
  authVars,
  historyVars>>

notRecVars == <<rentVars, scoreVars, parseVars, marketVars, updateVars, searchVars,
  saveVars,
  aiVars,
  messageVars,
  authVars,
  historyVars>>

notMarketVars == <<rentVars, scoreVars, parseVars, recVars, updateVars, searchVars,
  saveVars,
  aiVars,
  messageVars,
  authVars,
  historyVars>>

notUpdateVars == <<rentVars, scoreVars, parseVars, storeVars, recVars, marketVars, searchVars,
  saveVars,
  aiVars,
  messageVars,
  authVars,
  historyVars>>

notSearchVars == <<rentVars, scoreVars, parseVars, recVars, marketVars, updateVars,
  saveVars,
  aiVars,
  messageVars,
  authVars,
  historyVars>>

notSaveVars ==
  <<rentVars, scoreVars, parseVars, storeVars, recVars, marketVars, updateVars, searchVars,
  aiVars,
  messageVars,
  authVars,
  historyVars>>

notAiVars ==
  <<rentVars, scoreVars, parseVars, storeVars, recVars, marketVars, updateVars, searchVars, saveVars,
  messageVars,
  authVars,
  historyVars>>

notMessageVars ==
  <<rentVars, scoreVars, parseVars, storeVars, recVars, marketVars, updateVars, searchVars, saveVars, aiVars,
  authVars,
  historyVars>>

notAuthVars ==
  <<rentVars, scoreVars, parseVars, storeVars, recVars, marketVars, updateVars, searchVars, saveVars, aiVars, messageVars,
  historyVars>>

notHistoryVars ==
  <<rentVars, scoreVars, parseVars, storeVars, recVars, marketVars, updateVars, searchVars, saveVars, aiVars, messageVars, authVars>>

vars == <<rentInput, rentResult, scoreInput, scoreResult, query, filters,
          properties, storeFails, recRequest, recResponse,
          marketLocation, marketResult,
          propertyDoc, nextImageId, updRequest, updResponse,
          searchRequest, searchResponse,
          savedProperties, saves, inflight,
          openaiConfigured, openaiQuotaExceeded, envQuotaExceeded, aiRequest, aiResponse,
          messages, msgRequest, msgResponse,
          user, token, loading, storedToken, effectDue, pendingChecks, authResult,
          searchHistory, searchClock, histRequest, histResponse>>

(***************************************************************************)
(* JavaScript values                                                       *)
(***************************************************************************)
RECURSIVE GCD(_, _)
GCD(a, b) == IF b = 0 THEN a ELSE GCD(b, a % b)

AbsInt(x) == IF x < 0 THEN -x ELSE x

\* the finite number n/d (d > 0), in lowest terms
Frac(n, d) ==
  LET g == GCD(AbsInt(n), d)
  IN  [k |-> "num", n |-> n \div g, d |-> d \div g]

Num(n) == [k |-> "num", n |-> n, d |-> 1]

NaN == [k |-> "nan", n |-> 0, d |-> 0]

PosInfinity == [k |-> "inf", n |-> 1, d |-> 0]

NegInfinity == [k |-> "inf", n |-> -1, d |-> 0]

Undefined == [k |-> "undef", n |-> 0, d |-> 0]

\* an object or a function, such as a member inherited from Object.prototype
ObjectValue == [k |-> "obj", n |-> 0, d |-> 0]

\* a string that is not a numeral (the result of `+` on a non-number)
TextValue == [k |-> "str", n |-> 0, d |-> 0]

\* the outcome of a call that throws instead of returning
Thrown == [k |-> "throw", n |-> 0, d |-> 0]

\* ToNumber: undefined, objects/functions and non-numeral strings give NaN
ToNumber(v) == IF v.k \in {"num", "inf"} THEN v ELSE NaN

\* ToBoolean, as used by `a || b`
Truthy(v) ==
  CASE v.k = "num" -> v.n # 0
    [] v.k = "inf" -> TRUE
    [] v.k = "obj" -> TRUE
    [] v.k = "str" -> TRUE
    [] OTHER -> FALSE

\* a || b
Or(a, b) == IF Truthy(a) THEN a ELSE b

Sign(n) == IF n > 0 THEN 1 ELSE IF n < 0 THEN -1 ELSE 0

InfOf(s) == IF s > 0 THEN PosInfinity ELSE NegInfinity

NumAdd(x, y) ==
  CASE x.k = "nan" \/ y.k = "nan" -> NaN
    [] x.k = "inf" /\ y.k = "inf" -> IF x.n = y.n THEN x ELSE NaN
    [] x.k = "inf" -> x
    [] y.k = "inf" -> y
    [] OTHER -> Frac(x.n * y.d + y.n * x.d, x.d * y.d)

NumNeg(x) ==
  CASE x.k = "nan" -> NaN
    [] x.k = "inf" -> InfOf(-x.n)
    [] OTHER -> [k |-> "num", n |-> -x.n, d |-> x.d]

NumMul(x, y) ==
  CASE x.k = "nan" \/ y.k = "nan" -> NaN
    [] x.k = "inf" \/ y.k = "inf" ->
         IF Sign(x.n) * Sign(y.n) = 0 THEN NaN ELSE InfOf(Sign(x.n) * Sign(y.n))
    [] OTHER ->
         LET g1 == GCD(AbsInt(x.n), y.d)
             g2 == GCD(AbsInt(y.n), x.d)
         IN  Frac((x.n \div g1) * (y.n \div g2), (x.d \div g2) * (y.d \div g1))

NumDiv(x, y) ==
  CASE x.k = "nan" \/ y.k = "nan" -> NaN
    [] x.k = "inf" /\ y.k = "inf" -> NaN
    [] x.k = "inf" -> IF y.n < 0 THEN InfOf(-x.n) ELSE x
    [] y.k = "inf" -> Num(0)
    [] y.n = 0 -> IF x.n = 0 THEN NaN ELSE InfOf(x.n)
    [] OTHER -> NumMul(x, IF y.n > 0 THEN [k |-> "num", n |-> y.d, d |-> y.n]
                                    ELSE [k |-> "num", n |-> -y.d, d |-> -y.n])

\* a + b: string concatenation as soon as one side is not a number
JsAdd(a, b) ==
  IF a.k \in {"obj", "str"} \/ b.k \in {"obj", "str"}
  THEN TextValue
  ELSE NumAdd(ToNumber(a), ToNumber(b))

\* a - b, a * b, a / b
JsSub(a, b) == NumAdd(ToNumber(a), NumNeg(ToNumber(b)))

JsMul(a, b) == NumMul(ToNumber(a), ToNumber(b))

JsDiv(a, b) == NumDiv(ToNumber(a), ToNumber(b))

\* a < b and a <= b: false whenever a side is NaN
NumLt(x, y) ==
  CASE x.k = "nan" \/ y.k = "nan" -> FALSE
    [] x.k = "inf" /\ y.k = "inf" -> x.n < y.n
    [] x.k = "inf" -> x.n < 0
    [] y.k = "inf" -> y.n > 0
    [] OTHER -> x.n * y.d < y.n * x.d

JsLt(a, b) == NumLt(ToNumber(a), ToNumber(b))

JsLe(a, b) ==
  LET x == ToNumber(a)
      y == ToNumber(b)
  IN  x.k # "nan" /\ y.k # "nan" /\ ~NumLt(y, x)

JsGt(a, b) == JsLt(b, a)

JsGe(a, b) == JsLe(b, a)

IsNaN(v) == ToNumber(v).k = "nan"

\* Math.max / Math.min of two arguments: NaN if either is NaN
MathMax(a, b) ==
  LET x == ToNumber(a)
      y == ToNumber(b)
  IN  IF x.k = "nan" \/ y.k = "nan" THEN NaN
      ELSE IF NumLt(x, y) THEN y ELSE x

MathMin(a, b) ==
  LET x == ToNumber(a)
      y == ToNumber(b)
  IN  IF x.k = "nan" \/ y.k = "nan" THEN NaN
      ELSE IF NumLt(y, x) THEN y ELSE x

MathAbs(a) ==
  LET x == ToNumber(a)
  IN  CASE x.k = "nan" -> NaN
        [] x.k = "inf" -> PosInfinity
        [] OTHER -> [k |-> "num", n |-> AbsInt(x.n), d |-> x.d]

\* Math.round: the nearest integer, halves towards +Infinity
MathRound(a) ==
  LET x == ToNumber(a)
  IN  IF x.k = "num" THEN Num((2 * x.n + x.d) \div (2 * x.d)) ELSE x

\* parseFloat(x.toFixed(2)) of a number x
ToFixed2(a) ==
  LET x == ToNumber(a)
  IN  IF x.k = "num"
      THEN NumDiv(MathRound(NumMul(x, Num(100))), Num(100))
      ELSE x

\* String(x) of a number, as a property key: the numerals of the small
\* non-negative integers; every other number gives a key no table holds
Numerals == <<"1", "2", "3", "4", "5", "6", "7", "8", "9">>

NumberKey(x) ==
  IF x.k = "num" /\ x.d = 1 /\ x.n \in DOMAIN Numerals THEN Numerals[x.n]
  ELSE IF x.k = "num" /\ x.n = 0 THEN "0"
  ELSE "not-a-key"

\* String.prototype.toLowerCase on the names the model uses
UpperCased ==
  [Apartment |-> "apartment", Villa |-> "villa", Mumbai |-> "mumbai",
   Pune |-> "pune", Maharashtra |-> "maharashtra", Gym |-> "gym",
   Pool |-> "pool", Atlantis |-> "atlantis"]

toLowerCase(s) == IF s \in DOMAIN UpperCased THEN UpperCased[s] ELSE s

\* members every object literal inherits from Object.prototype
ObjectPrototypeKeys ==
  {"constructor", "__proto__", "toString", "valueOf", "hasOwnProperty"}

\* table[key] on an object literal: an own property, else an inherited
\* member, else undefined
Lookup(table, key) ==
  IF key \in DOMAIN table THEN table[key]
  ELSE IF key \in ObjectPrototypeKeys THEN ObjectValue
  ELSE Undefined

(***************************************************************************)
(* Market data tables                                                      *)
(***************************************************************************)
BASE_PRICES ==
  [apartment |-> Num(4000), house |-> Num(3500), villa |-> Num(5000),
   penthouse |-> Num(6000), studio |-> Num(4500), default |-> Num(4000)]

LOCATION_MULTIPLIERS ==
  [mumbai |-> Frac(18, 10), delhi |-> Frac(16, 10), bangalore |-> Frac(17, 10),
   hyderabad |-> Frac(14, 10), chennai |-> Frac(13, 10), kolkata |-> Frac(12, 10),
   pune |-> Frac(13, 10), ahmedabad |-> Frac(11, 10), vishakapatnam |-> Frac(10, 10),
   maharashtra |-> Frac(13, 10), karnataka |-> Frac(12, 10),
   telangana |-> Frac(11, 10), gujarat |-> Frac(10, 10), default |-> Frac(10, 10)]
    @@ ("tamil nadu" :> Frac(11, 10)) @@ ("west bengal" :> Frac(10, 10))
    @@ ("andhra pradesh" :> Frac(9, 10))

AMENITY_VALUES ==
  [parking |-> Num(1000), gym |-> Num(1500), pool |-> Num(2000),
   security |-> Num(1000), lift |-> Num(800), maintenance |-> Num(1000),
   playground |-> Num(500), garden |-> Num(500), clubhouse |-> Num(1000),
   internet |-> Num(800), housekeeping |-> Num(1000)]
    @@ ("air conditioning" :> Num(2000)) @@ ("power backup" :> Num(1000))
    @@ ("water supply" :> Num(500))

BEDROOM_MULTIPLIERS ==
  ("1" :> Frac(10, 10)) @@ ("2" :> Frac(13, 10)) @@ ("3" :> Frac(16, 10))
    @@ ("4" :> Frac(19, 10)) @@ ("5" :> Frac(22, 10)) @@ ("default" :> Frac(10, 10))

BATHROOM_MULTIPLIERS ==
  ("1" :> Frac(10, 10)) @@ ("2" :> Frac(12, 10)) @@ ("3" :> Frac(14, 10))
    @@ ("4" :> Frac(16, 10)) @@ ("default" :> Frac(10, 10))

(***************************************************************************)
(* Rent price calculator (services/marketDataService.js)                   *)
(***************************************************************************)
\* a destructuring default applies to undefined only
Default(v, d) == IF v.k = "undef" THEN d ELSE v

DEFAULT_SQUARE_FOOTAGE == 1000

\* amenities.reduce((total, amenity) => total + (AMENITY_VALUES[...] || 0), 0)
RECURSIVE AmenitiesReduce(_, _)
AmenitiesReduce(total, amenities) ==
  IF amenities = <<>> THEN total
  ELSE AmenitiesReduce(
         JsAdd(total, Or(Lookup(AMENITY_VALUES, toLowerCase(Head(amenities))), Num(0))),
         Tail(amenities))

\* a location multiplier that consults the state only
LocationMultiplier_StateOnly(city, state) ==
  MathMax(Or(Lookup(LOCATION_MULTIPLIERS, toLowerCase(state)), Frac(10, 10)), Frac(8, 10))

\* Math.max(cityMultiplier, stateMultiplier, 0.8)
LocationMultiplier(city, state) ==
  LET cityMultiplier == Or(Lookup(LOCATION_MULTIPLIERS, toLowerCase(city)), Frac(10, 10))
      stateMultiplier == Or(Lookup(LOCATION_MULTIPLIERS, toLowerCase(state)), Frac(10, 10))
  IN  MathMax(MathMax(cityMultiplier, stateMultiplier), Frac(8, 10))

BedroomMultiplier(bedrooms) ==
  Or(Lookup(BEDROOM_MULTIPLIERS, NumberKey(bedrooms)), BEDROOM_MULTIPLIERS["default"])

BathroomMultiplier(bathrooms) ==
  Or(Lookup(BATHROOM_MULTIPLIERS, NumberKey(bathrooms)), BATHROOM_MULTIPLIERS["default"])

\* priceVariance = totalPrice * 0.15; min/max = round(totalPrice -/+ priceVariance)
PriceRange(totalPrice) ==
  LET priceVariance == JsMul(totalPrice, Frac(15, 100))
  IN  [min |-> MathRound(JsSub(totalPrice, priceVariance)),
       max |-> MathRound(JsAdd(totalPrice, priceVariance))]

\* The estimate calculateRentPrice returns.  No statement of the body throws
\* for string names and numeric (or absent) counts, so the catch block that
\* rethrows 'Failed to calculate rent price' is never entered from these
\* inputs; the outcome records that as threw = FALSE.
calculateRentPrice(property) ==
  LET bedrooms == Default(property.bedrooms, Num(1))
      bathrooms == Default(property.bathrooms, Num(1))
      squareFootage == Default(property.squareFootage, Num(0))
      propertyType ==
        toLowerCase(IF property.propertyType = "" THEN "apartment"
                    ELSE property.propertyType)
      basePricePerSqFt == Or(Lookup(BASE_PRICES, propertyType), BASE_PRICES.default)
      basePrice0 == JsMul(basePricePerSqFt, Or(squareFootage, Num(DEFAULT_SQUARE_FOOTAGE)))
      locationMultiplier == LocationMultiplier(property.city, property.state)
      basePrice1 == JsMul(basePrice0, locationMultiplier)
      bedroomMultiplier == BedroomMultiplier(bedrooms)
      bathroomMultiplier == BathroomMultiplier(bathrooms)
      basePrice == JsMul(basePrice1, JsMul(bedroomMultiplier, bathroomMultiplier))
      amenitiesValue == AmenitiesReduce(Num(0), property.amenities)
      totalPrice == JsAdd(basePrice, amenitiesValue)
  IN  [threw |-> FALSE,
       error |-> "",
       basePrice |-> MathRound(basePrice),
       amenitiesValue |-> MathRound(amenitiesValue),
       totalPrice |-> MathRound(totalPrice),
       priceRange |-> PriceRange(totalPrice),
       locationMultiplier |-> ToFixed2(locationMultiplier),
       bedroomMultiplier |-> ToFixed2(bedroomMultiplier),
       bathroomMultiplier |-> ToFixed2(bathroomMultiplier)]

\* Inputs of the calculator.  Names: listed, listed in another case, absent
\* from the table, and names of inherited object members.
PropertyTypes == {"apartment", "Villa", "penthouse", "castle", "", "constructor"}

Cities == {"mumbai", "Pune", "atlantis", "constructor"}

States == {"", "Maharashtra", "andhra pradesh", "atlantis", "__proto__"}

AmenityLists ==
  {<<>>, <<"parking", "gym">>, <<"Pool", "sauna">>, <<"sauna">>, <<"constructor">>}

ValidBedrooms == {Undefined, Num(0), Num(1), Num(2), Num(5), Num(6)}

ValidBathrooms == {Undefined, Num(1), Num(2), Frac(3, 2)}

ValidSquareFootages == {Undefined, Num(0), Num(450), Num(900), Num(1200)}

\* malformed numeric fields: negative or NaN
MalformedNumbers == {Num(-1), NaN}

MalformedSquareFootages == {Num(-500), NaN}

PropertyInputs ==
  [propertyType : PropertyTypes,
   bedrooms : ValidBedrooms \cup MalformedNumbers,
   bathrooms : ValidBathrooms \cup MalformedNumbers,
   squareFootage : ValidSquareFootages \cup MalformedSquareFootages,
   city : Cities,
   state : States,
   amenities : AmenityLists]

NoEstimate == [threw |-> FALSE, error |-> "not-called"]

\* the values a component's variables keep while another component runs
IdleRentInput ==
  [propertyType |-> "", bedrooms |-> Undefined, bathrooms |-> Undefined,
   squareFootage |-> Undefined, city |-> "", state |-> "", amenities |-> <<>>]

IdleScoreInput == [fn |-> "none"]

IdleQuery == [kind |-> "none"]

NoScore == [k |-> "not-called", n |-> 0, d |-> 0]

NoCity == [present |-> FALSE, text |-> <<>>]

NotParsed == [threw |-> FALSE, maxRent |-> NaN, bedrooms |-> NaN, city |-> NoCity]

IdleRequest == [userFound |-> FALSE]

NoResponse == [status |-> 0, recommendations |-> <<>>, totalFound |-> 0]

IdleLocation == [kind |-> "none"]

NoMarketData == [totalListings |-> -1]

\* a stored property as the update endpoints read and write it
IdlePropertyDoc == [landlord |-> "landlord", images |-> <<>>, location |-> <<72, 19>>]

IdleUpdate == [route |-> "none"]

NoUpdateResponse == [status |-> 0]

IdleSearch == [route |-> "none"]

NoSearchResponse == [status |-> 0, properties |-> <<>>]

\* users and properties of the save/unsave endpoints, and the request slots
Savers == {"u1", "u2"}

SavedIds == {"p1", "p2"}

SaveRequestIds == {1, 2, 3}

NoSavedProperties == [u \in Savers |-> <<>>]

NoSaves == [p \in SavedIds |-> 0]

IdleSlot ==
  [pc |-> "idle", kind |-> "none", user |-> "", property |-> "", savedRead |-> <<>>,
   savesRead |-> 0, stale |-> FALSE, status |-> 0]

NoRequests == [r \in SaveRequestIds |-> IdleSlot]

IdleAiRequest == [route |-> "none"]

NoAiResponse ==
  [status |-> 0, source |-> "none", fallback |-> FALSE, fallbackReason |-> "",
   llmCalled |-> FALSE]

MessageIds == {"m1", "m2"}

NoMessage == [exists |-> FALSE]

NoMessages == [m \in MessageIds |-> NoMessage]

IdleMsgRequest == [route |-> "none"]

NoMsgResponse == [status |-> 0]

Null == "null"

NoAuthResult == [call |-> "none", success |-> FALSE]

IdleHistRequest == [route |-> "none"]

NoHistResponse == [status |-> 0, searchHistory |-> <<>>]

\* the property object of one call, before the call
RentInit ==
  /\ searchHistory = <<>>
  /\ searchClock = 0
  /\ histRequest = IdleHistRequest
  /\ histResponse = NoHistResponse
  /\ user = Null
  /\ token = Null
  /\ loading = TRUE
  /\ storedToken = Null
  /\ effectDue = FALSE
  /\ pendingChecks = 0
  /\ authResult = NoAuthResult
  /\ messages = NoMessages
  /\ msgRequest = IdleMsgRequest
  /\ msgResponse = NoMsgResponse
  /\ openaiConfigured = FALSE
  /\ openaiQuotaExceeded = FALSE
  /\ envQuotaExceeded = FALSE
  /\ aiRequest = IdleAiRequest
  /\ aiResponse = NoAiResponse
  /\ savedProperties = NoSavedProperties
  /\ saves = NoSaves
  /\ inflight = NoRequests
  /\ rentInput \in PropertyInputs
  /\ rentResult = NoEstimate
  /\ scoreInput = IdleScoreInput
  /\ scoreResult = NoScore
  /\ query = IdleQuery
  /\ filters = NotParsed
  /\ properties = {}
  /\ storeFails = FALSE
  /\ recRequest = IdleRequest
  /\ recResponse = NoResponse
  /\ marketLocation = IdleLocation
  /\ marketResult = NoMarketData
  /\ propertyDoc = IdlePropertyDoc
  /\ nextImageId = 1
  /\ updRequest = IdleUpdate
  /\ updResponse = NoUpdateResponse
  /\ searchRequest = IdleSearch
  /\ searchResponse = NoSearchResponse

\* the call of calculateRentPrice on that property
CalculateRentPrice ==
  /\ rentResult = NoEstimate
  /\ rentResult' = calculateRentPrice(rentInput)
  /\ UNCHANGED <<rentInput, notRentVars>>

RentNext == CalculateRentPrice

RentCalled == rentResult # NoEstimate

\* the numeric fields of the call are absent or non-negative numbers
ValidNumericInput ==
  /\ rentInput.bedrooms \in ValidBedrooms
  /\ rentInput.bathrooms \in ValidBathrooms
  /\ rentInput.squareFootage \in ValidSquareFootages

IsPositiveNumber(v) == v.k = "num" /\ v.n > 0

IsInteger(v) == v.k = "num" /\ v.d = 1

\* |a - b| < 1
WithinOne(a, b) == JsLt(MathAbs(JsSub(a, b)), Num(1))

\* C1: for valid numeric inputs and any propertyType, city, state and
\* amenities, priceRange.min <= totalPrice <= priceRange.max, both bounds are
\* non-negative, and min and max are the integers nearest to totalPrice minus
\* and plus 15% (within one unit of 85% and 115% of the rounded totalPrice).
C1_PriceRangeBracketsTotal ==
  (RentCalled /\ ValidNumericInput) =>
    /\ ~rentResult.threw
    /\ JsLe(rentResult.priceRange.min, rentResult.totalPrice)
    /\ JsLe(rentResult.totalPrice, rentResult.priceRange.max)
    /\ JsGe(rentResult.priceRange.min, Num(0))
    /\ JsGe(rentResult.priceRange.max, Num(0))
    /\ IsInteger(rentResult.priceRange.min)
    /\ IsInteger(rentResult.priceRange.max)
    /\ WithinOne(rentResult.priceRange.min, JsMul(rentResult.totalPrice, Frac(85, 100)))
    /\ WithinOne(rentResult.priceRange.max, JsMul(rentResult.totalPrice, Frac(115, 100)))

\* a name is listed in a table when its lower-cased form is an own key
Listed(table, name) == toLowerCase(name) \in DOMAIN table

\* C3: with valid numeric fields, a propertyType, city, state or amenity tag
\* absent from the lookup tables never makes the call throw, the returned
\* totalPrice is a positive number, and the unknown name resolves to its
\* default (location multiplier 1.0 when neither city nor state is listed).
C3_UnknownNamesResolveToDefaults ==
  (RentCalled /\ ValidNumericInput) =>
    /\ ~rentResult.threw
    /\ IsPositiveNumber(rentResult.totalPrice)
    /\ (~Listed(LOCATION_MULTIPLIERS, rentInput.city)
          /\ ~Listed(LOCATION_MULTIPLIERS, rentInput.state))
        => rentResult.locationMultiplier = Num(1)

\* the table's own entry for the key, or 1.0 when the table lists no such key
EntryOrOne(table, key) == IF key \in DOMAIN table THEN table[key] ELSE Num(1)

Largest(a, b) == IF JsLe(a, b) THEN b ELSE a

\* C16: the location multiplier is max(city entry or 1.0, state entry or 1.0,
\* 0.8) and so at least 0.8; the bedroom and bathroom multipliers are the
\* table entry or 1.0 for an unknown key; every multiplier is positive.
C16_MultipliersFromTablesOrDefaults ==
  (RentCalled /\ ValidNumericInput) =>
    /\ rentResult.locationMultiplier =
         Largest(Largest(EntryOrOne(LOCATION_MULTIPLIERS, toLowerCase(rentInput.city)),
                         EntryOrOne(LOCATION_MULTIPLIERS, toLowerCase(rentInput.state))),
                 Frac(8, 10))
    /\ JsLe(Frac(8, 10), rentResult.locationMultiplier)
    /\ rentResult.bedroomMultiplier =
         EntryOrOne(BEDROOM_MULTIPLIERS, NumberKey(Default(rentInput.bedrooms, Num(1))))
    /\ rentResult.bathroomMultiplier =
         EntryOrOne(BATHROOM_MULTIPLIERS, NumberKey(Default(rentInput.bathrooms, Num(1))))
    /\ IsPositiveNumber(rentResult.locationMultiplier)
    /\ IsPositiveNumber(rentResult.bedroomMultiplier)
    /\ IsPositiveNumber(rentResult.bathroomMultiplier)

\* integer room counts compared with the count of the call: one past the
\* last key of BEDROOM_MULTIPLIERS
RoomCounts == {Num(b) : b \in 0..6}

IsCount(v) == v \in RoomCounts

\* C17: the bedroom multiplier of a call is at most the multiplier the
\* calculator applies to the same property with any larger integer bedroom
\* count, and likewise the bathroom multiplier.
C17_RoomMultipliersMonotone ==
  (RentCalled /\ ValidNumericInput) =>
    /\ IsCount(rentInput.bedrooms) =>
         \A b2 \in RoomCounts :
           JsLe(rentInput.bedrooms, b2) =>
             JsLe(rentResult.bedroomMultiplier,
                  calculateRentPrice([rentInput EXCEPT !.bedrooms = b2]).bedroomMultiplier)
    /\ IsCount(rentInput.bathrooms) =>
         \A b2 \in RoomCounts :
           JsLe(rentInput.bathrooms, b2) =>
             JsLe(rentResult.bathroomMultiplier,
                  calculateRentPrice([rentInput EXCEPT !.bathrooms = b2]).bathroomMultiplier)

ExampleProperty ==
  [propertyType |-> "apartment", bedrooms |-> Num(2), bathrooms |-> Num(1),
   squareFootage |-> Num(900), city |-> "mumbai", state |-> "",
   amenities |-> <<"parking", "gym">>]

\* C5: the pricing example.  apartment, 2 bedrooms, 1 bathroom, 900 sqft,
\* mumbai, [parking, gym] gives multipliers 1.8, 1.3 and 1.0, basePrice
\* 4000 x 900 x 1.8 x 1.3 x 1.0 = 8424000, amenitiesValue 2500, totalPrice
\* 8426500 and the range 7162525 .. 9690475 (totalPrice -/+ 15%).
C5_PricingExample ==
  (RentCalled /\ rentInput = ExampleProperty) =>
    /\ ~rentResult.threw
    /\ rentResult.locationMultiplier = Frac(18, 10)
    /\ rentResult.bedroomMultiplier = Frac(13, 10)
    /\ rentResult.bathroomMultiplier = Num(1)
    /\ rentResult.basePrice = Num(8424000)
    /\ rentResult.amenitiesValue = Num(2500)
    /\ rentResult.totalPrice = Num(8426500)
    /\ rentResult.priceRange.min = Num(7162525)
    /\ rentResult.priceRange.max = Num(9690475)

C5_ExampleCalled == RentCalled /\ rentInput = ExampleProperty

MalformedNumericInput ==
  \/ rentInput.bedrooms \in MalformedNumbers
  \/ rentInput.bathrooms \in MalformedNumbers
  \/ rentInput.squareFootage \in MalformedSquareFootages

\* C8: a call with a NaN or negative bedrooms, bathrooms or squareFootage
\* fails with an InvalidPropertyDataError and returns no estimate.
C8_MalformedNumbersRejected ==
  (RentCalled /\ MalformedNumericInput) =>
    rentResult.threw /\ rentResult.error = "InvalidPropertyDataError"

(***************************************************************************)
(* Match scores (routes/search.js calculateSmartScore, routes/ai.js        *)
(* calculatePersonalizedScore)                                             *)
(***************************************************************************)
\* array.filter(a => other.includes(a)).length
RECURSIVE CountIncluded(_, _)
CountIncluded(array, other) ==
  IF array = <<>> THEN 0
  ELSE (IF \E i \in DOMAIN other : other[i] = Head(array) THEN 1 ELSE 0)
         + CountIncluded(Tail(array), other)

\* `${bedrooms}bed`, or 'studio' for bedrooms === 0
BedroomKey(bedrooms) ==
  IF bedrooms = Num(0) THEN "studio" ELSE NumberKey(bedrooms) \o "bed"

\* getRelativePricing with the upper threshold included in market-rate
getRelativePricing_Inclusive(rent, marketData, bedrooms) ==
  IF marketData.kind = "promise" THEN "TypeError" ELSE
  LET marketAvg == Or(Lookup(marketData.avgRent, BedroomKey(bedrooms)),
                      Lookup(marketData.avgRent, "1bed"))
      ratio == JsDiv(rent, marketAvg)
  IN  IF JsLt(ratio, Frac(9, 10)) THEN "good-value"
      ELSE IF JsLe(ratio, Frac(11, 10)) THEN "market-rate"
      ELSE "premium"

\* reading marketData.avgRent[key] of a Promise: avgRent is undefined, and
\* indexing undefined throws a TypeError
getRelativePricing(rent, marketData, bedrooms) ==
  IF marketData.kind = "promise" THEN "TypeError" ELSE
  LET marketAvg == Or(Lookup(marketData.avgRent, BedroomKey(bedrooms)),
                      Lookup(marketData.avgRent, "1bed"))
      ratio == JsDiv(rent, marketAvg)
  IN  IF JsLt(ratio, Frac(9, 10)) THEN "good-value"
      ELSE IF JsLt(ratio, Frac(11, 10)) THEN "market-rate"
      ELSE "premium"

calculateSmartScore(property, preferences, marketData) ==
  LET budgetMid == JsDiv(JsAdd(preferences.budget.min, preferences.budget.max), Num(2))
      priceDiff == JsDiv(MathAbs(JsSub(property.rent, budgetMid)), budgetMid)
      score1 == IF preferences.budget.present
                THEN JsAdd(Num(50), JsMul(JsSub(Num(1), priceDiff), Num(30)))
                ELSE Num(50)
      matched == CountIncluded(property.amenities, preferences.amenities.list)
      score2 == IF preferences.amenities.present /\ Len(preferences.amenities.list) > 0
                THEN JsAdd(score1, JsMul(JsDiv(Num(matched),
                                               Num(Len(preferences.amenities.list))),
                                         Num(25)))
                ELSE score1
      marketPosition == getRelativePricing(property.rent, marketData, property.bedrooms)
      score3 == JsAdd(score2, IF marketPosition = "good-value" THEN Num(20)
                              ELSE IF marketPosition = "market-rate" THEN Num(15)
                              ELSE Num(10))
      score4 == IF JsGt(property.yearBuilt, Num(2010)) THEN JsAdd(score3, Num(5)) ELSE score3
      score5 == IF Len(property.amenities) > 5 THEN JsAdd(score4, Num(5)) ELSE score4
      score6 == IF JsGt(property.squareFootage, Num(1000)) THEN JsAdd(score5, Num(5))
                ELSE score5
      score == JsAdd(score6, MathMin(Num(10), JsDiv(property.views, Num(50))))
  IN  IF marketPosition = "TypeError" THEN Thrown
      ELSE MathMin(Num(100), MathMax(Num(0), score))

\* calculatePersonalizedScore with partial credit for a rent over budget
calculatePersonalizedScore_Graded(property, userPrefs) ==
  LET score1 == IF userPrefs.budget.present /\ Truthy(userPrefs.budget.max)
                THEN (IF JsLe(property.rent, userPrefs.budget.max) THEN 30 ELSE 15)
                ELSE 0
      score2 == IF userPrefs.bedrooms.present /\ Truthy(userPrefs.bedrooms.min)
                   /\ JsGe(property.bedrooms, userPrefs.bedrooms.min)
                THEN score1 + 25 ELSE score1
      score3 == IF userPrefs.amenities.present
                THEN score2 + CountIncluded(userPrefs.amenities.list, property.amenities) * 5
                ELSE score2
  IN  MathMin(Num(score3), Num(100))

calculatePersonalizedScore(property, userPrefs) ==
  LET score1 == IF userPrefs.budget.present /\ Truthy(userPrefs.budget.max)
                   /\ JsLe(property.rent, userPrefs.budget.max)
                THEN 30 ELSE 0
      score2 == IF userPrefs.bedrooms.present /\ Truthy(userPrefs.bedrooms.min)
                   /\ JsGe(property.bedrooms, userPrefs.bedrooms.min)
                THEN score1 + 25 ELSE score1
      score3 == IF userPrefs.amenities.present
                THEN score2 + CountIncluded(userPrefs.amenities.list, property.amenities) * 5
                ELSE score2
  IN  MathMin(Num(score3), Num(100))

\* Listings as stored, with the fields the scoring functions read.
SixAmenities == <<"gym", "pool", "parking", "lift", "garden", "security">>

TwelveAmenities ==
  SixAmenities \o <<"internet", "clubhouse", "playground", "maintenance",
                    "housekeeping", "balcony">>

ScoredProperties ==
  [rent : {Num(300), Num(1080), Num(1320), Num(1500), Num(5000)},
   bedrooms : {Num(0), Num(2)},
   amenities : {<<>>, <<"gym", "pool">>, <<"gym", "gym">>, TwelveAmenities},
   yearBuilt : {Undefined, Num(2015)},
   squareFootage : {Undefined, Num(1200)},
   views : {Undefined, Num(0), Num(120), Num(1000)}]

BudgetPreferences ==
  {[present |-> FALSE, min |-> Undefined, max |-> Undefined],
   [present |-> TRUE, min |-> Num(500), max |-> Num(1500)],
   [present |-> TRUE, min |-> Num(0), max |-> Num(0)],
   [present |-> TRUE, min |-> Undefined, max |-> Num(1500)],
   [present |-> TRUE, min |-> Num(1000), max |-> Undefined]}

BedroomPreferences ==
  {[present |-> FALSE, min |-> Undefined],
   [present |-> TRUE, min |-> Num(1)],
   [present |-> TRUE, min |-> Num(3)]}

AmenityPreferences ==
  {[present |-> FALSE, list |-> <<>>],
   [present |-> TRUE, list |-> <<>>],
   [present |-> TRUE, list |-> <<"gym", "sauna">>],
   [present |-> TRUE, list |-> <<"gym", "gym">>],
   [present |-> TRUE, list |-> TwelveAmenities]}

Preferences ==
  [budget : BudgetPreferences, bedrooms : BedroomPreferences,
   amenities : AmenityPreferences]

\* market data as the scoring function reads it: average rent by bedroom key
MarketDatas ==
  {[kind |-> "object",
    avgRent |-> ("studio" :> Num(900)) @@ ("1bed" :> Num(1200)) @@ ("2bed" :> Num(1600))],
   [kind |-> "object", avgRent |-> ("1bed" :> Num(1200))],
   [kind |-> "object", avgRent |-> ("1bed" :> Num(0))],
   [kind |-> "object", avgRent |-> ("2bed" :> Num(1600))]}

ScoreInputs ==
  [fn : {"calculateSmartScore", "calculatePersonalizedScore"},
   property : ScoredProperties, preferences : Preferences, marketData : MarketDatas]

ScoreInit ==
  /\ searchHistory = <<>>
  /\ searchClock = 0
  /\ histRequest = IdleHistRequest
  /\ histResponse = NoHistResponse
  /\ user = Null
  /\ token = Null
  /\ loading = TRUE
  /\ storedToken = Null
  /\ effectDue = FALSE
  /\ pendingChecks = 0
  /\ authResult = NoAuthResult
  /\ messages = NoMessages
  /\ msgRequest = IdleMsgRequest
  /\ msgResponse = NoMsgResponse
  /\ openaiConfigured = FALSE
  /\ openaiQuotaExceeded = FALSE
  /\ envQuotaExceeded = FALSE
  /\ aiRequest = IdleAiRequest
  /\ aiResponse = NoAiResponse
  /\ savedProperties = NoSavedProperties
  /\ saves = NoSaves
  /\ inflight = NoRequests
  /\ scoreInput \in ScoreInputs
  /\ scoreResult = NoScore
  /\ rentInput = IdleRentInput
  /\ rentResult = NoEstimate
  /\ query = IdleQuery
  /\ filters = NotParsed
  /\ properties = {}
  /\ storeFails = FALSE
  /\ recRequest = IdleRequest
  /\ recResponse = NoResponse
  /\ marketLocation = IdleLocation
  /\ marketResult = NoMarketData
  /\ propertyDoc = IdlePropertyDoc
  /\ nextImageId = 1
  /\ updRequest = IdleUpdate
  /\ updResponse = NoUpdateResponse
  /\ searchRequest = IdleSearch
  /\ searchResponse = NoSearchResponse

\* Property.find hydrates each stored document with the schema defaults:
\* views is 0 when the stored document has none; specifications.yearBuilt and
\* specifications.squareFootage have no default and stay undefined
ApplyDefaults(property) ==
  [property EXCEPT !.views = IF @ = Undefined THEN Num(0) ELSE @]

CallSmartScore ==
  /\ scoreResult = NoScore
  /\ scoreInput.fn = "calculateSmartScore"
  /\ scoreResult' = calculateSmartScore(ApplyDefaults(scoreInput.property),
                                        scoreInput.preferences, scoreInput.marketData)
  /\ UNCHANGED <<scoreInput, notScoreVars>>

CallPersonalizedScore ==
  /\ scoreResult = NoScore
  /\ scoreInput.fn = "calculatePersonalizedScore"
  /\ scoreResult' = calculatePersonalizedScore(scoreInput.property, scoreInput.preferences)
  /\ UNCHANGED <<scoreInput, notScoreVars>>

ScoreNext == CallSmartScore \/ CallPersonalizedScore

ScoreCalled == scoreResult # NoScore

InScoreRange(v) == v.k = "num" /\ JsLe(Num(0), v) /\ JsLe(v, Num(100))

\* C2: for every listing, preference object and market data, the score
\* returned by calculateSmartScore and by calculatePersonalizedScore is a
\* number in [0,100].
C2_MatchScoreInRange == ScoreCalled => InScoreRange(scoreResult)

SmartScoreCalled == ScoreCalled /\ scoreInput.fn = "calculateSmartScore"

MissingOptionalField(property) ==
  Undefined \in {property.squareFootage, property.yearBuilt, property.views}

\* the listing with every missing optional field given the value 0
ZeroFilled(property) ==
  [property EXCEPT !.squareFootage = IF @ = Undefined THEN Num(0) ELSE @,
                   !.yearBuilt = IF @ = Undefined THEN Num(0) ELSE @,
                   !.views = IF @ = Undefined THEN Num(0) ELSE @]

\* C15: when a listing lacks square footage, construction year or view count,
\* calculateSmartScore returns a number, and that number is the score of the
\* same listing with the missing field contributing zero.
C15_MissingOptionalFieldsNeutral ==
  (SmartScoreCalled /\ MissingOptionalField(scoreInput.property)) =>
    /\ scoreResult.k = "num"
    /\ scoreResult = calculateSmartScore(ZeroFilled(scoreInput.property),
                                         scoreInput.preferences, scoreInput.marketData)

\* the preferences without the budget preference
NoBudget(preferences) ==
  [preferences EXCEPT !.budget = [present |-> FALSE, min |-> Undefined, max |-> Undefined]]

\* a budget preference with a numeric min and a positive numeric max
WellFormedBudget(budget) ==
  budget.present /\ budget.min.k = "num" /\ budget.max.k = "num" /\ JsLt(Num(0), budget.max)

\* full weight when the rent is within the maximum budget, nothing otherwise
BinaryBudgetTerm(property, preferences) ==
  IF preferences.budget.present /\ Truthy(preferences.budget.max)
     /\ JsLe(property.rent, preferences.budget.max)
  THEN Num(30) ELSE Num(0)

\* (1 - |rent - mid| / mid) x 30 around the middle of the budget range
GradedBudgetTerm(property, preferences) ==
  LET mid == JsDiv(JsAdd(preferences.budget.min, preferences.budget.max), Num(2))
  IN  JsMul(JsSub(Num(1), JsDiv(MathAbs(JsSub(property.rent, mid)), mid)), Num(30))

ScoreWithoutBudget ==
  IF scoreInput.fn = "calculateSmartScore"
  THEN calculateSmartScore(ApplyDefaults(scoreInput.property),
                           NoBudget(scoreInput.preferences), scoreInput.marketData)
  ELSE calculatePersonalizedScore(scoreInput.property, NoBudget(scoreInput.preferences))

NoAmenities(preferences) ==
  [preferences EXCEPT !.amenities = [present |-> FALSE, list |-> <<>>]]

\* (preferred amenities present in the listing / preferred amenities) x 25,
\* nothing for an absent or empty preference list
ProportionalAmenityTerm(property, preferences) ==
  IF preferences.amenities.present /\ Len(preferences.amenities.list) > 0
  THEN JsMul(JsDiv(Num(CountIncluded(preferences.amenities.list, property.amenities)),
                   Num(Len(preferences.amenities.list))),
             Num(25))
  ELSE Num(0)

SmartScoreWithoutAmenities ==
  calculateSmartScore(ApplyDefaults(scoreInput.property),
                      NoAmenities(scoreInput.preferences), scoreInput.marketData)

\* C19: the amenity preference adds (preferred amenities present in the
\* listing / preferred amenities) x 25 to the score of calculateSmartScore,
\* an amount between 0 and 25, and nothing when the list is empty.  Stated for
\* preferences without a budget, where the score without the amenity
\* preference is between 60 and 95 and so apart from both clamps.
C19_AmenityTermProportional ==
  (SmartScoreCalled /\ ~scoreInput.preferences.budget.present) =>
    /\ JsLe(SmartScoreWithoutAmenities, scoreResult)
    /\ JsLe(scoreResult, JsAdd(SmartScoreWithoutAmenities, Num(25)))
    /\ scoreResult =
         MathMin(Num(100),
                 JsAdd(SmartScoreWithoutAmenities,
                       ProportionalAmenityTerm(scoreInput.property,
                                               scoreInput.preferences)))

\* the market average for the listing's bedroom count, else the one-bedroom
\* average, else none
MarketAverage(marketData, bedrooms) ==
  LET key == BedroomKey(bedrooms)
      avgRent == marketData.avgRent
  IN  IF key \in DOMAIN avgRent /\ Truthy(avgRent[key]) THEN avgRent[key]
      ELSE IF "1bed" \in DOMAIN avgRent THEN avgRent["1bed"]
      ELSE Undefined

RentRatio ==
  JsDiv(scoreInput.property.rent,
        MarketAverage(scoreInput.marketData, scoreInput.property.bedrooms))

IsRatio(r) == r.k \in {"num", "inf"}

\* points a class earns above the points of premium
PointsAbovePremium(class) ==
  IF class = "good-value" THEN Num(10)
  ELSE IF class = "market-rate" THEN Num(5)
  ELSE Num(0)

\* the score of the same listing at a rent far above every market average
PremiumTwinScore ==
  calculateSmartScore(ApplyDefaults([scoreInput.property EXCEPT !.rent = Num(5000)]),
                      scoreInput.preferences, scoreInput.marketData)

\* the listing's class shows in its score: without a budget preference the
\* rent enters the score through the class alone
ScoredAsClass(class) ==
  scoreResult = MathMin(Num(100), JsAdd(PremiumTwinScore, PointsAbovePremium(class)))

RelativePricingCase ==
  /\ SmartScoreCalled
  /\ ~scoreInput.preferences.budget.present
  /\ JsLt(PremiumTwinScore, Num(100))

\* C20 (as claimed): a listing whose rent is r times the market average is
\* good-value when r < 0.9, market-rate when 0.9 <= r <= 1.1 and premium when
\* r > 1.1, and is scored 10, 5 and 0 points above premium respectively.
C20_ClassesWithInclusiveBounds ==
  (RelativePricingCase /\ IsRatio(RentRatio)) =>
    LET class == IF JsLt(RentRatio, Frac(9, 10)) THEN "good-value"
                 ELSE IF JsLe(RentRatio, Frac(11, 10)) THEN "market-rate"
                 ELSE "premium"
    IN  /\ getRelativePricing(scoreInput.property.rent, scoreInput.marketData,
                              scoreInput.property.bedrooms) = class
        /\ ScoredAsClass(class)

\* C20 (amended): good-value when r < 0.9, market-rate when 0.9 <= r < 1.1,
\* premium otherwise (r >= 1.1, or r not a number), scored 10, 5 and 0 points
\* above premium respectively.
C20_ClassesWithUpperBoundExcluded ==
  RelativePricingCase =>
    LET r == RentRatio
        class == IF IsRatio(r) /\ JsLt(r, Frac(9, 10)) THEN "good-value"
                 ELSE IF IsRatio(r) /\ JsLe(Frac(9, 10), r) /\ JsLt(r, Frac(11, 10))
                      THEN "market-rate"
                 ELSE "premium"
    IN  /\ getRelativePricing(scoreInput.property.rent, scoreInput.marketData,
                              scoreInput.property.bedrooms) = class
        /\ ScoredAsClass(class)

\* a rent of exactly 1.1 times the market average is scored as premium:
\* 50 + 10 points
C20_UpperBoundIsPremium ==
  /\ RelativePricingCase
  /\ RentRatio = Frac(11, 10)
  /\ scoreInput.property.amenities = <<>>
  /\ scoreInput.property.yearBuilt = Undefined
  /\ scoreInput.property.squareFootage = Undefined
  /\ scoreInput.property.views = Undefined
  /\ scoreResult = Num(60)

(***************************************************************************)
(* Natural-language query parser (routes/ai.js).  Strings are sequences of *)
(* one-character strings so that the regular expressions can be matched.   *)
(***************************************************************************)
Digits == {"0", "1", "2", "3", "4", "5", "6", "7", "8", "9"}

DigitValue ==
  ("0" :> 0) @@ ("1" :> 1) @@ ("2" :> 2) @@ ("3" :> 3) @@ ("4" :> 4)
    @@ ("5" :> 5) @@ ("6" :> 6) @@ ("7" :> 7) @@ ("8" :> 8) @@ ("9" :> 9)

LowerLetters ==
  {"a", "b", "c", "d", "e", "f", "g", "h", "i", "j", "k", "l", "m", "n", "o",
   "p", "q", "r", "s", "t", "u", "v", "w", "x", "y", "z"}

\* the upper-case letters the model's queries use
UpperLetters == ("A" :> "a") @@ ("U" :> "u")

IsDigit(c) == c \in Digits

IsSpace(c) == c = " "

\* [a-zA-Z\s]
LettersAndSpaces == LowerLetters \cup DOMAIN UpperLetters \cup {" "}

IsLetterOrSpace(c) == c \in LettersAndSpaces

\* String.prototype.toLowerCase, character by character
LowerQuery(text) ==
  [i \in DOMAIN text |->
     IF text[i] \in DOMAIN UpperLetters THEN UpperLetters[text[i]] ELSE text[i]]

\* the pattern pat occurs in s at position i
OccursAt(s, i, pat) ==
  /\ i >= 1
  /\ i + Len(pat) - 1 <= Len(s)
  /\ SubSeq(s, i, i + Len(pat) - 1) = pat

\* the end of the longest run of characters of a class starting at i (i - 1
\* when s[i] is not of the class): what a greedy P+ or P* consumes
RunEnd(s, i, class) ==
  CHOOSE j \in (i - 1)..Len(s) :
    /\ \A k \in i..j : s[k] \in class
    /\ j = Len(s) \/ s[j + 1] \notin class

\* parseInt of a string of digits
RECURSIVE ParseDigits(_, _)
ParseDigits(acc, digits) ==
  IF digits = <<>> THEN acc
  ELSE ParseDigits(10 * acc + DigitValue[Head(digits)], Tail(digits))

parseInt(digits) == IF digits = <<>> THEN NaN ELSE Num(ParseDigits(0, digits))

\* String.prototype.trim
Trim(s) ==
  IF \A i \in DOMAIN s : IsSpace(s[i]) THEN <<>>
  ELSE LET first == CHOOSE i \in DOMAIN s :
                      ~IsSpace(s[i]) /\ \A k \in 1..(i - 1) : IsSpace(s[k])
           last == CHOOSE i \in DOMAIN s :
                     ~IsSpace(s[i]) /\ \A k \in (i + 1)..Len(s) : IsSpace(s[k])
       IN  SubSeq(s, first, last)

Least(S) == CHOOSE i \in S : \A j \in S : i <= j

UnderWord == <<"u", "n", "d", "e", "r", " ">>

BedWord == <<"b", "e", "d">>

InWord == <<"i", "n", " ">>

\* /under \$?(\d+)/ matches at i; DigitsStart is where its group begins
PriceDigitsStart(s, i) ==
  IF i + Len(UnderWord) <= Len(s) /\ s[i + Len(UnderWord)] = "$"
  THEN i + Len(UnderWord) + 1
  ELSE i + Len(UnderWord)

PriceMatchAt(s, i) ==
  /\ OccursAt(s, i, UnderWord)
  /\ PriceDigitsStart(s, i) <= Len(s)
  /\ IsDigit(s[PriceDigitsStart(s, i)])

\* /(\d+)\s*bed/ matches at i
BedroomMatchAt(s, i) ==
  /\ IsDigit(s[i])
  /\ OccursAt(s, RunEnd(s, RunEnd(s, i, Digits) + 1, {" "}) + 1, BedWord)

\* /in ([a-zA-Z\s]+)/ matches at i
LocationMatchAt(s, i) ==
  /\ OccursAt(s, i, InWord)
  /\ i + Len(InWord) <= Len(s)
  /\ IsLetterOrSpace(s[i + Len(InWord)])

PriceMatches(s) == {i \in DOMAIN s : PriceMatchAt(s, i)}

BedroomMatches(s) == {i \in DOMAIN s : BedroomMatchAt(s, i)}

LocationMatches(s) == {i \in DOMAIN s : LocationMatchAt(s, i)}

\* parseNaturalLanguageQuery: a field that is Undefined (NoCity) is absent
\* from the filter object.  query.toLowerCase() throws a TypeError when the
\* query is not a string.
parseNaturalLanguageQuery(q) ==
  IF q.kind # "string"
  THEN [threw |-> TRUE, maxRent |-> Undefined, bedrooms |-> Undefined, city |-> NoCity]
  ELSE
    LET lowerQuery == LowerQuery(q.text)
        priceAt == Least(PriceMatches(lowerQuery))
        priceFrom == PriceDigitsStart(lowerQuery, priceAt)
        bedAt == Least(BedroomMatches(lowerQuery))
        cityFrom == Least(LocationMatches(lowerQuery)) + Len(InWord)
    IN  [threw |-> FALSE,
         maxRent |->
           IF PriceMatches(lowerQuery) = {} THEN Undefined
           ELSE parseInt(SubSeq(lowerQuery, priceFrom,
                                RunEnd(lowerQuery, priceFrom, Digits))),
         bedrooms |->
           IF BedroomMatches(lowerQuery) = {} THEN Undefined
           ELSE parseInt(SubSeq(lowerQuery, bedAt, RunEnd(lowerQuery, bedAt, Digits))),
         city |->
           IF LocationMatches(lowerQuery) = {} THEN NoCity
           ELSE [present |-> TRUE,
                 text |-> Trim(SubSeq(lowerQuery, cityFrom,
                                      RunEnd(lowerQuery, cityFrom, LettersAndSpaces)))]]

\* Queries: every sequence of at most MaxTokens tokens, the two example
\* queries, and request bodies whose query is missing or not a string.
MaxTokens == 4

Tokens ==
  {UnderWord, <<"$">>, <<"2">>, <<"1", "0">>, <<" ">> \o BedWord, InWord,
   <<"A", "u", "s", "t", "i", "n">>, <<" ">>, <<"p", "o", "o", "l">>}

RECURSIVE TokenStrings(_)
TokenStrings(n) ==
  IF n = 0 THEN {<<>>}
  ELSE LET shorter == TokenStrings(n - 1)
       IN  shorter \cup {s \o t : s \in shorter, t \in Tokens}

\* "2 bedroom apartment in Austin under $2000"
AustinQuery ==
  <<"2", " ", "b", "e", "d", "r", "o", "o", "m", " ", "a", "p", "a", "r", "t", "m", "e", "n", "t", " ">> \o
  <<"i", "n", " ", "A", "u", "s", "t", "i", "n", " ", "u", "n", "d", "e", "r", " ", "$", "2", "0", "0", "0">>

\* "apartment with a pool"
PoolQuery == <<"a", "p", "a", "r", "t", "m", "e", "n", "t", " ", "w", "i", "t", "h", " ", "a", " ", "p", "o", "o", "l">>

Queries ==
  {[kind |-> "string", text |-> t] : t \in TokenStrings(MaxTokens) \cup {AustinQuery, PoolQuery}}
    \cup {[kind |-> "undefined", text |-> <<>>], [kind |-> "number", text |-> <<>>]}

ParseInit ==
  /\ searchHistory = <<>>
  /\ searchClock = 0
  /\ histRequest = IdleHistRequest
  /\ histResponse = NoHistResponse
  /\ user = Null
  /\ token = Null
  /\ loading = TRUE
  /\ storedToken = Null
  /\ effectDue = FALSE
  /\ pendingChecks = 0
  /\ authResult = NoAuthResult
  /\ messages = NoMessages
  /\ msgRequest = IdleMsgRequest
  /\ msgResponse = NoMsgResponse
  /\ openaiConfigured = FALSE
  /\ openaiQuotaExceeded = FALSE
  /\ envQuotaExceeded = FALSE
  /\ aiRequest = IdleAiRequest
  /\ aiResponse = NoAiResponse
  /\ savedProperties = NoSavedProperties
  /\ saves = NoSaves
  /\ inflight = NoRequests
  /\ query \in Queries
  /\ filters = NotParsed
  /\ rentInput = IdleRentInput
  /\ rentResult = NoEstimate
  /\ scoreInput = IdleScoreInput
  /\ scoreResult = NoScore
  /\ properties = {}
  /\ storeFails = FALSE
  /\ recRequest = IdleRequest
  /\ recResponse = NoResponse
  /\ marketLocation = IdleLocation
  /\ marketResult = NoMarketData
  /\ propertyDoc = IdlePropertyDoc
  /\ nextImageId = 1
  /\ updRequest = IdleUpdate
  /\ updResponse = NoUpdateResponse
  /\ searchRequest = IdleSearch
  /\ searchResponse = NoSearchResponse

ParseQuery ==
  /\ filters = NotParsed
  /\ filters' = parseNaturalLanguageQuery(query)
  /\ UNCHANGED <<query, notParseVars>>

ParseNext == ParseQuery

Parsed == filters # NotParsed

\* C4: "2 bedroom apartment in Austin under $2000" parses to exactly
\* {bedrooms: 2, city: "Austin", maxRent: 2000} and "apartment with a pool"
\* to the empty filter object.
C4_ParserExamples ==
  /\ (Parsed /\ query.text = AustinQuery) =>
       filters = [threw |-> FALSE, maxRent |-> Num(2000), bedrooms |-> Num(2),
                  city |-> [present |-> TRUE, text |-> <<"A", "u", "s", "t", "i", "n">>]]
  /\ (Parsed /\ query.text = PoolQuery) =>
       filters = [threw |-> FALSE, maxRent |-> Undefined, bedrooms |-> Undefined,
                  city |-> NoCity]

AbsentOrNumber(v) == v = Undefined \/ v.k = "num"

\* C9: for every input given as the query the parser completes without
\* throwing; maxRent, bedrooms and city are present exactly when their
\* pattern occurs in the query, the numeric fields are numbers, never NaN;
\* a query matching no pattern gives the empty filter object.
C9_ParserNeverThrows ==
  Parsed =>
    /\ ~filters.threw
    /\ AbsentOrNumber(filters.maxRent)
    /\ AbsentOrNumber(filters.bedrooms)
    /\ (filters.maxRent # Undefined) = (PriceMatches(LowerQuery(query.text)) # {})
    /\ (filters.bedrooms # Undefined) = (BedroomMatches(LowerQuery(query.text)) # {})
    /\ filters.city.present = (LocationMatches(LowerQuery(query.text)) # {})

(***************************************************************************)
(* The Property collection (models/Property.js).  A document keeps the     *)
(* fields the ranking and the market-data aggregation read; createdAt is   *)
(* the timestamp set on insertion, distinct for distinct documents.        *)
(***************************************************************************)
Listing(id, status, city, rent, views) ==
  [id |-> id, status |-> status, city |-> city, state |-> "maharashtra",
   rent |-> Num(rent), bedrooms |-> Num(2), bathrooms |-> Num(1),
   propertyType |-> "apartment", amenities |-> <<"gym", "pool">>,
   yearBuilt |-> Num(2015), squareFootage |-> Num(1200), views |-> Num(views),
   matchingScore |-> Undefined, createdAt |-> id]

\* listings 1 and 2 differ in nothing but identity and creation time;
\* listing 5 has an aiAnalysis.matchingScore, listing 6 has no rent
ListingPool ==
  {Listing(1, "active", "pune", 1000, 0),
   Listing(2, "active", "pune", 1000, 0),
   Listing(3, "active", "mumbai", 1500, 120),
   Listing(4, "inactive", "pune", 800, 0),
   [Listing(5, "active", "navi mumbai", 5000, 1000) EXCEPT !.matchingScore = Num(80)],
   [Listing(6, "active", "pune", 0, 0) EXCEPT !.rent = Undefined]}

Stores == SUBSET ListingPool

\* text.includes(part)
Contains(text, part) ==
  \E i \in 1..(Len(text) - Len(part) + 1) : SubSeq(text, i, i + Len(part) - 1) = part

\* new RegExp(pattern, 'i').test(text), for a pattern of letters and spaces
RegExpTest(pattern, text) == Contains(toLowerCase(text), toLowerCase(pattern))

\* array.includes(x)
Includes(array, x) == \E i \in DOMAIN array : array[i] = x

\* documents of a set, latest createdAt first: .sort({ createdAt: -1 })
RECURSIVE SortByCreatedAt(_)
SortByCreatedAt(docs) ==
  IF docs = {} THEN <<>>
  ELSE LET latest == CHOOSE p \in docs : \A q \in docs : q.createdAt <= p.createdAt
       IN  <<latest>> \o SortByCreatedAt(docs \ {latest})

\* .limit(n) of a cursor, array.slice(0, n) of an array
Slice(array, n) == SubSeq(array, 1, IF Len(array) < n THEN Len(array) ELSE n)

(***************************************************************************)
(* POST /smart-recommendations (routes/search.js)                          *)
(***************************************************************************)
FIND_LIMIT == 50

RECOMMENDATION_COUNT == 20

\* the MongoDB query the handler builds from the request body
MatchesQuery(p, req) ==
  /\ p.status = "active"
  /\ (req.location.city # "" /\ req.location.state # "")
       => /\ RegExpTest(req.location.city, p.city)
          /\ RegExpTest(req.location.state, p.state)
  /\ Truthy(req.budget.min) => JsGe(p.rent, req.budget.min)
  /\ Truthy(req.budget.max) => JsLe(p.rent, req.budget.max)
  /\ req.preferences.bedrooms.present
       => Includes(req.preferences.bedrooms.list, p.bedrooms)
  /\ (req.preferences.propertyTypes.present /\ Len(req.preferences.propertyTypes.list) > 0)
       => Includes(req.preferences.propertyTypes.list, p.propertyType)
  /\ (req.preferences.amenities.present /\ Len(req.preferences.amenities.list) > 0)
       => \E i \in DOMAIN p.amenities : Includes(req.preferences.amenities.list, p.amenities[i])

\* Property.find(query).sort({ createdAt: -1 }).limit(50)
FindCandidates(stored, req) ==
  Slice(SortByCreatedAt({p \in stored : MatchesQuery(p, req)}), FIND_LIMIT)

\* what require('../services/marketDataService') gives the routes: the
\* module's exports
MarketDataServiceExports == {"calculateRentPrice", "getMarketTrends"}

\* the value of the async getMarketData of services/marketData.js when it is
\* not awaited: a Promise
PendingPromise == [kind |-> "promise"]

\* the map callback: the listing with its smartScore.  The callback first
\* calls marketDataService.getMarketData, which throws a TypeError when the
\* module exports no such function; the handler does not await the call
WithSmartScore(p, req) ==
  [listing |-> p,
   smartScore |-> IF "getMarketData" \notin MarketDataServiceExports THEN Thrown
                  ELSE IF req.userFound
                  THEN calculateSmartScore(p, req.preferences, PendingPromise)
                  ELSE Thrown]

\* the comparator (a, b) => b.smartScore - a.smartScore says a comes first
\* when it is negative; a NaN difference is read as 0
ComesBefore(a, b) == JsLt(JsSub(b.smartScore, a.smartScore), Num(0))

\* one insertion of the stable sort: x goes before the first element it
\* comes before, and after every element it ties with
InsertByScore(sorted, x) ==
  LET before == {i \in DOMAIN sorted : ComesBefore(x, sorted[i])}
      at == IF before = {} THEN Len(sorted) + 1
            ELSE CHOOSE i \in before : \A j \in before : i <= j
  IN  SubSeq(sorted, 1, at - 1) \o <<x>> \o SubSeq(sorted, at, Len(sorted))

\* properties.sort(comparator): Array.prototype.sort is stable
RECURSIVE SortByScore(_)
SortByScore(array) ==
  IF array = <<>> THEN <<>>
  ELSE InsertByScore(SortByScore(SubSeq(array, 1, Len(array) - 1)), array[Len(array)])

ServiceError == [status |-> 500, recommendations |-> <<>>, totalFound |-> 0]

\* the handler: any exception, a rejected query included, is answered by 500
smartRecommendations(req, stored, fails) ==
  IF fails THEN ServiceError
  ELSE LET candidates == FindCandidates(stored, req)
           scored == [i \in DOMAIN candidates |-> WithSmartScore(candidates[i], req)]
       IN  IF \E i \in DOMAIN scored : scored[i].smartScore = Thrown THEN ServiceError
           ELSE [status |-> 200,
                 recommendations |-> Slice(SortByScore(scored), RECOMMENDATION_COUNT),
                 totalFound |-> Len(scored)]

RequestLocations ==
  {[city |-> "", state |-> ""], [city |-> "Pune", state |-> "Maharashtra"],
   [city |-> "mumbai", state |-> "maharashtra"], [city |-> "atlantis", state |-> "atlantis"]}

RequestBudgets ==
  {[min |-> Undefined, max |-> Undefined], [min |-> Num(900), max |-> Num(2000)],
   [min |-> Undefined, max |-> Num(900)]}

ListPreferences(lists) ==
  {[present |-> FALSE, list |-> <<>>]} \cup {[present |-> TRUE, list |-> l] : l \in lists}

RequestPreferences ==
  [budget : {[present |-> FALSE, min |-> Undefined, max |-> Undefined],
             [present |-> TRUE, min |-> Num(500), max |-> Num(1500)]},
   amenities : ListPreferences({<<"gym">>, <<"lift">>}),
   bedrooms : ListPreferences({<<Num(2), Num(3)>>, <<Num(1)>>}),
   propertyTypes : ListPreferences({<<"apartment">>, <<>>})]

Requests ==
  [preferences : RequestPreferences, location : RequestLocations,
   budget : RequestBudgets, userFound : BOOLEAN]

RecommendInit ==
  /\ searchHistory = <<>>
  /\ searchClock = 0
  /\ histRequest = IdleHistRequest
  /\ histResponse = NoHistResponse
  /\ user = Null
  /\ token = Null
  /\ loading = TRUE
  /\ storedToken = Null
  /\ effectDue = FALSE
  /\ pendingChecks = 0
  /\ authResult = NoAuthResult
  /\ messages = NoMessages
  /\ msgRequest = IdleMsgRequest
  /\ msgResponse = NoMsgResponse
  /\ openaiConfigured = FALSE
  /\ openaiQuotaExceeded = FALSE
  /\ envQuotaExceeded = FALSE
  /\ aiRequest = IdleAiRequest
  /\ aiResponse = NoAiResponse
  /\ savedProperties = NoSavedProperties
  /\ saves = NoSaves
  /\ inflight = NoRequests
  /\ properties \in Stores
  /\ storeFails \in BOOLEAN
  /\ recRequest \in Requests
  /\ recResponse = NoResponse
  /\ rentInput = IdleRentInput
  /\ rentResult = NoEstimate
  /\ scoreInput = IdleScoreInput
  /\ scoreResult = NoScore
  /\ query = IdleQuery
  /\ filters = NotParsed
  /\ marketLocation = IdleLocation
  /\ marketResult = NoMarketData
  /\ propertyDoc = IdlePropertyDoc
  /\ nextImageId = 1
  /\ updRequest = IdleUpdate
  /\ updResponse = NoUpdateResponse
  /\ searchRequest = IdleSearch
  /\ searchResponse = NoSearchResponse

SmartRecommendations ==
  /\ recRequest # IdleRequest
  /\ recResponse = NoResponse
  /\ recResponse' = smartRecommendations(recRequest, properties, storeFails)
  /\ UNCHANGED <<recRequest, storeVars, notRecVars>>

RecommendNext == SmartRecommendations

Recommended == recResponse # NoResponse

\* the request is one the handler can serve: the store answers, the user
\* exists, and listings match
RankingDue ==
  /\ Recommended
  /\ ~storeFails
  /\ recRequest.userFound
  /\ \E p \in properties : MatchesQuery(p, recRequest)

\* C6: smart-recommendations answers with the ranked list of the matching
\* listings, in which scores never increase from one listing to the next and,
\* of two listings with identical score, the more recently created one comes
\* first.
C6_RankedByScoreThenRecency ==
  RankingDue =>
    /\ recResponse.status = 200
    /\ recResponse.totalFound > 0
    /\ \A i, j \in DOMAIN recResponse.recommendations :
         i < j =>
           LET a == recResponse.recommendations[i]
               b == recResponse.recommendations[j]
           IN  /\ JsGe(a.smartScore, b.smartScore)
               /\ a.smartScore = b.smartScore
                    => a.listing.createdAt > b.listing.createdAt

(***************************************************************************)
(* marketDataService.getMarketData (services/marketDataService.js).  The   *)
(* lastUpdated timestamp of a result is left out.  isEstimate is TRUE for  *)
(* a result carrying `isEstimate: true` and FALSE for a result without the *)
(* property.                                                               *)
(***************************************************************************)
getGlobalMarketData_Unflagged ==
  [location |-> [city |-> "Global", state |-> "All"],
   averageRent |-> Num(1500),
   propertyTypeDistribution |->
     [Apartment |-> 45, House |-> 35, Condo |-> 15, Other |-> 5],
   totalListings |-> 100,
   isEstimate |-> FALSE]

getGlobalMarketData ==
  [location |-> [city |-> "Global", state |-> "All"],
   averageRent |-> Num(1500),
   propertyTypeDistribution |->
     [Apartment |-> 45, House |-> 35, Condo |-> 15, Other |-> 5],
   totalListings |-> 100,
   isEstimate |-> TRUE]

\* !location || !location.city: no argument, null, a string (whose .city is
\* undefined), or an object whose city is missing or empty
HasNoCity(location) ==
  \/ location.kind # "object"
  \/ ~location.hasCity
  \/ location.city = ""

\* Property.find({ 'address.city': city, 'address.state': state })
FindByLocation(stored, location) ==
  {p \in stored : p.city = location.city /\ p.state = location.state}

\* properties.reduce((sum, prop) => sum + (prop.pricing?.rent || 0), 0)
RECURSIVE TotalRent(_)
TotalRent(docs) ==
  IF docs = {} THEN Num(0)
  ELSE LET p == CHOOSE q \in docs : TRUE
       IN  JsAdd(TotalRent(docs \ {p}), Or(p.rent, Num(0)))

\* the count of listings per property type
PropertyTypeCounts(docs) ==
  [t \in {p.propertyType : p \in docs} |->
     Cardinality({p \in docs : p.propertyType = t})]

getMarketData(location, stored, fails) ==
  IF HasNoCity(location) THEN getGlobalMarketData
  ELSE IF fails THEN getGlobalMarketData
  ELSE LET found == FindByLocation(stored, location)
       IN  IF Cardinality(found) = 0 THEN getGlobalMarketData
           ELSE [location |-> [city |-> location.city, state |-> location.state],
                 averageRent |-> MathRound(JsDiv(TotalRent(found),
                                                 Num(Cardinality(found)))),
                 propertyTypeDistribution |-> PropertyTypeCounts(found),
                 totalListings |-> Cardinality(found),
                 isEstimate |-> FALSE]

MarketLocations ==
  {[kind |-> "undefined", hasCity |-> FALSE, city |-> "", state |-> ""],
   [kind |-> "null", hasCity |-> FALSE, city |-> "", state |-> ""],
   [kind |-> "string", hasCity |-> FALSE, city |-> "", state |-> ""],
   [kind |-> "object", hasCity |-> FALSE, city |-> "", state |-> "maharashtra"]}
  \cup [kind : {"object"}, hasCity : {TRUE},
        city : {"", "pune", "Pune", "mumbai", "atlantis"},
        state : {"maharashtra", "goa"}]

MarketInit ==
  /\ searchHistory = <<>>
  /\ searchClock = 0
  /\ histRequest = IdleHistRequest
  /\ histResponse = NoHistResponse
  /\ user = Null
  /\ token = Null
  /\ loading = TRUE
  /\ storedToken = Null
  /\ effectDue = FALSE
  /\ pendingChecks = 0
  /\ authResult = NoAuthResult
  /\ messages = NoMessages
  /\ msgRequest = IdleMsgRequest
  /\ msgResponse = NoMsgResponse
  /\ openaiConfigured = FALSE
  /\ openaiQuotaExceeded = FALSE
  /\ envQuotaExceeded = FALSE
  /\ aiRequest = IdleAiRequest
  /\ aiResponse = NoAiResponse
  /\ savedProperties = NoSavedProperties
  /\ saves = NoSaves
  /\ inflight = NoRequests
  /\ properties \in Stores
  /\ storeFails \in BOOLEAN
  /\ marketLocation \in MarketLocations
  /\ marketResult = NoMarketData
  /\ rentInput = IdleRentInput
  /\ rentResult = NoEstimate
  /\ scoreInput = IdleScoreInput
  /\ scoreResult = NoScore
  /\ query = IdleQuery
  /\ filters = NotParsed
  /\ recRequest = IdleRequest
  /\ recResponse = NoResponse
  /\ propertyDoc = IdlePropertyDoc
  /\ nextImageId = 1
  /\ updRequest = IdleUpdate
  /\ updResponse = NoUpdateResponse
  /\ searchRequest = IdleSearch
  /\ searchResponse = NoSearchResponse

GetMarketData ==
  /\ marketResult = NoMarketData
  /\ marketResult' = getMarketData(marketLocation, properties, storeFails)
  /\ UNCHANGED <<marketLocation, storeVars, notMarketVars>>

MarketNext == GetMarketData

MarketCalled == marketResult # NoMarketData

\* the three cases in which the result is the fallback's
FallbackCase ==
  \/ HasNoCity(marketLocation)
  \/ storeFails
  \/ ~ \E p \in properties :
         p.city = marketLocation.city /\ p.state = marketLocation.state

\* C10: the result of getMarketData carries isEstimate: true exactly when no
\* location or city was given, no stored listing has the city and state, or
\* the store failed; a result aggregated from stored listings does not carry
\* it.
C10_EstimateFlagExactlyOnFallback ==
  MarketCalled =>
    /\ marketResult.isEstimate <=> FallbackCase
    /\ ~FallbackCase =>
         /\ marketResult.location.city = marketLocation.city
         /\ marketResult.totalListings > 0

\* an average over two stored listings of the city asked for
C10_AggregatedFromListings ==
  /\ MarketCalled
  /\ ~storeFails
  /\ marketResult.totalListings = 2
  /\ marketResult.location.city = "pune"
  /\ ~marketResult.isEstimate

(***************************************************************************)
(* Property update endpoints (routes/propertyUpdates.js): image upload,    *)
(* image deletion, location update, on one stored property.  An image is   *)
(* its _id and its isMain flag; of a request answered, its route and its   *)
(* requester are kept.  The auth middleware is not part of the    *)
(* sources: it refuses a request without a valid token and sets req.user   *)
(* for the token's user; whether req.user has an `id` besides `userId` is  *)
(* open, so a request carries both possibilities.                          *)
(***************************************************************************)
MAX_FILES == 10

MaxImageIds == 11

\* auth: the request goes on to the handler only with a valid token
Authenticated(req) == req.token # "none"

\* req.user.id
ReqUserId(req) == IF req.hasId THEN req.token ELSE "undefined"

IsOwner_Anyone(doc, req) == TRUE

\* property.landlord.toString() === req.user.id
IsOwner(doc, req) == doc.landlord = ReqUserId(req)

\* Property.findById(req.params.id)
Found(req) == req.propertyId = "p1"

\* the refusals every handler starts with: status, or 0 to go on
Refusal(doc, req) ==
  IF ~Authenticated(req) THEN 401
  ELSE IF ~Found(req) THEN 404
  ELSE IF ~IsOwner(doc, req) THEN 401
  ELSE 0

\* the images pushed for the uploaded files: each is main when the property
\* had no image before the request
NewImages(doc, firstId, count) ==
  [i \in 1..count |-> [id |-> firstId + i - 1, isMain |-> Len(doc.images) = 0]]

\* POST /:id/images: upload.array('images', 10) refuses more than 10 files
uploadImages(doc, req, firstId) ==
  IF ~Authenticated(req) THEN [doc |-> doc, status |-> 401]
  ELSE IF req.files > MAX_FILES THEN [doc |-> doc, status |-> 500]
  ELSE IF Refusal(doc, req) # 0 THEN [doc |-> doc, status |-> Refusal(doc, req)]
  ELSE [doc |-> [doc EXCEPT !.images = doc.images \o NewImages(doc, firstId, req.files)],
        status |-> 200]

\* property.images.findIndex(img => img._id.toString() === imageId), from 1;
\* 0 when there is none
FindIndex(images, imageId) ==
  IF \E i \in DOMAIN images : images[i].id = imageId
  THEN CHOOSE i \in DOMAIN images :
         images[i].id = imageId /\ \A j \in 1..(i - 1) : images[j].id # imageId
  ELSE 0

\* splice(imageIndex, 1), then the first remaining image becomes main if the
\* deleted one was
WithoutImage(images, at) ==
  LET rest == SubSeq(images, 1, at - 1) \o SubSeq(images, at + 1, Len(images))
  IN  IF images[at].isMain /\ Len(rest) > 0
      THEN [rest EXCEPT ![1].isMain = TRUE]
      ELSE rest

\* DELETE /:id/images/:imageId
deleteImage(doc, req) ==
  IF Refusal(doc, req) # 0 THEN [doc |-> doc, status |-> Refusal(doc, req)]
  ELSE IF FindIndex(doc.images, req.imageId) = 0 THEN [doc |-> doc, status |-> 404]
  ELSE [doc |-> [doc EXCEPT !.images = WithoutImage(doc.images,
                                                    FindIndex(doc.images, req.imageId))],
        status |-> 200]

\* the schema's validator of location.coordinates, run by save()
ValidCoordinates(v) ==
  /\ Len(v) = 2
  /\ v[1] >= -180 /\ v[1] <= 180
  /\ v[2] >= -90 /\ v[2] <= 90

\* PUT /:id/location
updateLocation(doc, req) ==
  IF ~Authenticated(req) THEN [doc |-> doc, status |-> 401]
  ELSE IF ~req.location.present \/ Len(req.location.coordinates) # 2
  THEN [doc |-> doc, status |-> 400]
  ELSE IF Refusal(doc, req) # 0 THEN [doc |-> doc, status |-> Refusal(doc, req)]
  ELSE IF ~ValidCoordinates(req.location.coordinates) THEN [doc |-> doc, status |-> 500]
  ELSE [doc |-> [doc EXCEPT !.location = req.location.coordinates], status |-> 200]

\* who asks, and for which property: the landlord (with and without
\* req.user.id), another user, nobody with a valid token, and the landlord
\* for a property that is not stored
Requesters ==
  {[token |-> "landlord", hasId |-> TRUE, propertyId |-> "p1"],
   [token |-> "landlord", hasId |-> FALSE, propertyId |-> "p1"],
   [token |-> "renter", hasId |-> TRUE, propertyId |-> "p1"],
   [token |-> "none", hasId |-> FALSE, propertyId |-> "p1"],
   [token |-> "landlord", hasId |-> TRUE, propertyId |-> "missing"]}

With(r, route, field, value) ==
  [route |-> route, token |-> r.token, hasId |-> r.hasId,
   propertyId |-> r.propertyId, files |-> IF field = "files" THEN value ELSE 0,
   imageId |-> IF field = "imageId" THEN value ELSE 0,
   location |-> IF field = "location" THEN value
                ELSE [present |-> FALSE, coordinates |-> <<>>]]

FileCounts == {0, 1, MAX_FILES, MAX_FILES + 1}

\* the image ids a deletion names: the first image's, the last one's, one
\* that no image has
ImageIdsNamed(doc) ==
  {0} \cup {doc.images[i].id : i \in DOMAIN doc.images \cap {1, Len(doc.images)}}

LocationBodies ==
  {[present |-> FALSE, coordinates |-> <<>>], [present |-> TRUE, coordinates |-> <<77>>],
   [present |-> TRUE, coordinates |-> <<77, 28>>],
   [present |-> TRUE, coordinates |-> <<200, 0>>]}

UpdateInit ==
  /\ searchHistory = <<>>
  /\ searchClock = 0
  /\ histRequest = IdleHistRequest
  /\ histResponse = NoHistResponse
  /\ user = Null
  /\ token = Null
  /\ loading = TRUE
  /\ storedToken = Null
  /\ effectDue = FALSE
  /\ pendingChecks = 0
  /\ authResult = NoAuthResult
  /\ messages = NoMessages
  /\ msgRequest = IdleMsgRequest
  /\ msgResponse = NoMsgResponse
  /\ openaiConfigured = FALSE
  /\ openaiQuotaExceeded = FALSE
  /\ envQuotaExceeded = FALSE
  /\ aiRequest = IdleAiRequest
  /\ aiResponse = NoAiResponse
  /\ savedProperties = NoSavedProperties
  /\ saves = NoSaves
  /\ inflight = NoRequests
  /\ propertyDoc = IdlePropertyDoc
  /\ nextImageId = 1
  /\ updRequest = IdleUpdate
  /\ updResponse = NoUpdateResponse
  /\ rentInput = IdleRentInput
  /\ rentResult = NoEstimate
  /\ scoreInput = IdleScoreInput
  /\ scoreResult = NoScore
  /\ query = IdleQuery
  /\ filters = NotParsed
  /\ properties = {}
  /\ storeFails = FALSE
  /\ recRequest = IdleRequest
  /\ recResponse = NoResponse
  /\ marketLocation = IdleLocation
  /\ marketResult = NoMarketData
  /\ searchRequest = IdleSearch
  /\ searchResponse = NoSearchResponse

UploadImages ==
  \E r \in Requesters, n \in FileCounts :
    LET req == With(r, "upload", "files", n)
        out == uploadImages(propertyDoc, req, nextImageId)
    IN  /\ nextImageId + n - 1 <= MaxImageIds
        /\ updRequest' = [route |-> req.route] @@ r
        /\ propertyDoc' = out.doc
        /\ updResponse' = [status |-> out.status]
        /\ nextImageId' = IF out.status = 200 THEN nextImageId + n ELSE nextImageId
        /\ UNCHANGED notUpdateVars

DeleteImage ==
  \E r \in Requesters, id \in ImageIdsNamed(propertyDoc) :
    LET req == With(r, "deleteImage", "imageId", id)
        out == deleteImage(propertyDoc, req)
    IN  /\ updRequest' = [route |-> req.route] @@ r
        /\ propertyDoc' = out.doc
        /\ updResponse' = [status |-> out.status]
        /\ UNCHANGED <<nextImageId, notUpdateVars>>

UpdateLocation ==
  \E r \in Requesters, body \in LocationBodies :
    LET req == With(r, "location", "location", body)
        out == updateLocation(propertyDoc, req)
    IN  /\ updRequest' = [route |-> req.route] @@ r
        /\ propertyDoc' = out.doc
        /\ updResponse' = [status |-> out.status]
        /\ UNCHANGED <<nextImageId, notUpdateVars>>

UpdateNext == UploadImages \/ DeleteImage \/ UpdateLocation

\* C11: the update endpoints change the images or the location of a property
\* only for an authenticated requester who is the property's landlord; any
\* other requester is refused and images and location stay as they were.
C11_OnlyLandlordUpdates ==
  [][ /\ (propertyDoc'.images # propertyDoc.images
            \/ propertyDoc'.location # propertyDoc.location)
         => /\ updRequest'.token = propertyDoc.landlord
            /\ updResponse'.status = 200
      /\ updRequest'.token # propertyDoc.landlord
         => /\ updResponse'.status # 200
            /\ propertyDoc' = propertyDoc ]_vars

\* a renter with a valid token asked to delete an image of the landlord's
\* property and was refused
C11_RenterRefused ==
  /\ updRequest.route = "deleteImage"
  /\ updRequest.token = "renter"
  /\ updRequest.hasId
  /\ updRequest.propertyId = "p1"
  /\ updResponse.status = 401
  /\ Len(propertyDoc.images) > 0

\* C12: after any sequence of image uploads and deletions the property holds
\* at most 10 images.
C12_AtMostTenImages == Len(propertyDoc.images) <= MAX_FILES

MainImages(doc) == {i \in DOMAIN doc.images : doc.images[i].isMain}

\* C22: at most one image of the property is the main image, and exactly one
\* is whenever the property has an image.
C22_ExactlyOneMainImage ==
  /\ Cardinality(MainImages(propertyDoc)) <= 1
  /\ Len(propertyDoc.images) > 0 => Cardinality(MainImages(propertyDoc)) = 1

(***************************************************************************)
(* The two natural-language search handlers: POST /natural-search of       *)
(* routes/search.js (text search, with a rent estimate for a listing that  *)
(* has no rent) and of routes/ai.js (parsed filters, personalized score).  *)
(***************************************************************************)
AI_SEARCH_LIMIT == 20

\* the store after a search request: the handlers call no save or update
StoreAfterSearch_Persisting(stored, items) ==
  {[items[i].listing EXCEPT !.rent = items[i].rent] : i \in DOMAIN items}
    \cup (stored \ {items[i].listing : i \in DOMAIN items})

StoreAfterSearch(stored, items) == stored

\* { $text: { $search: word }, status: 'active' } for a one-word query: the
\* text index covers address.city, address.state and amenities
TextMatches(p, word) ==
  /\ p.status = "active"
  /\ \/ Contains(p.city, toLowerCase(word))
     \/ p.state = toLowerCase(word)
     \/ Includes(p.amenities, toLowerCase(word))

\* the argument the handler builds for calculateRentPrice: the lean document
\* has no specifications.area and no location.city
EstimateInput(p) ==
  [propertyType |-> p.propertyType, bedrooms |-> Or(p.bedrooms, Num(1)),
   bathrooms |-> Or(p.bathrooms, Num(1)), squareFootage |-> Num(1000),
   city |-> "", state |-> "", amenities |-> p.amenities]

\* the map callback: a listing without rent gets pricing.rent from the
\* calculator, marked estimated; a failing calculation leaves it as it is
WithEstimate(p) ==
  IF Truthy(p.rent) \/ "calculateRentPrice" \notin MarketDataServiceExports
     \/ calculateRentPrice(EstimateInput(p)).threw
  THEN [listing |-> p, rent |-> p.rent, estimated |-> FALSE]
  ELSE [listing |-> p, rent |-> calculateRentPrice(EstimateInput(p)).totalPrice,
        estimated |-> TRUE]

\* routes/search.js; listings of equal text score come latest first
naturalSearch(req, stored, fails) ==
  IF req.query.kind # "string" \/ req.query.word = ""
  THEN [status |-> 400, properties |-> <<>>]
  ELSE IF fails THEN [status |-> 500, properties |-> <<>>]
  ELSE LET found == SortByCreatedAt({p \in stored : TextMatches(p, req.query.word)})
       IN  [status |-> 200, properties |-> [i \in DOMAIN found |-> WithEstimate(found[i])]]

\* the characters of a parsed city as one string
RECURSIVE Join(_)
Join(chars) == IF chars = <<>> THEN "" ELSE Head(chars) \o Join(Tail(chars))

\* buildMongoQuery(filters), as the condition on a listing
buildMongoQuery(p, f) ==
  /\ p.status = "active"
  /\ Truthy(f.maxRent) => JsLe(p.rent, f.maxRent)
  /\ Truthy(f.bedrooms) => p.bedrooms = f.bedrooms
  /\ (f.city.present /\ f.city.text # <<>>) => RegExpTest(Join(f.city.text), p.city)

\* a comes before b under .sort({ 'aiAnalysis.matchingScore': -1, createdAt: -1 });
\* a listing without the score sorts after those that have one
SortsBefore(a, b) ==
  \/ JsGt(a.matchingScore, b.matchingScore)
  \/ a.matchingScore # Undefined /\ b.matchingScore = Undefined
  \/ a.matchingScore = b.matchingScore /\ a.createdAt > b.createdAt

RECURSIVE SortByMatchingScore(_)
SortByMatchingScore(docs) ==
  IF docs = {} THEN <<>>
  ELSE LET first == CHOOSE p \in docs : \A q \in docs \ {p} : SortsBefore(p, q)
       IN  <<first>> \o SortByMatchingScore(docs \ {first})

\* routes/ai.js: the listings are returned in the order of the query, each
\* with its personalizedScore
aiNaturalSearch(req, stored, fails) ==
  LET searchFilters == parseNaturalLanguageQuery(req.query)
      found == Slice(SortByMatchingScore({p \in stored : buildMongoQuery(p, searchFilters)}),
                     AI_SEARCH_LIMIT)
  IN  IF searchFilters.threw \/ fails \/ (~req.userFound /\ found # <<>>)
      THEN [status |-> 500, properties |-> <<>>]
      ELSE [status |-> 200,
            properties |->
              [i \in DOMAIN found |->
                 [listing |-> found[i],
                  personalizedScore |->
                    calculatePersonalizedScore(found[i], req.preferences)]]]

SearchWords == {"", "pune", "Mumbai", "gym", "atlantis"}

SearchRequests ==
  {[route |-> "search", query |-> [kind |-> "string", word |-> w]] : w \in SearchWords}
    \cup {[route |-> "search", query |-> [kind |-> "undefined", word |-> ""]]}

AiQueryTexts ==
  {AustinQuery, PoolQuery, InWord \o <<"P", "u", "n", "e">>,
   UnderWord \o <<"1", "2", "0", "0">>, <<"2", " ">> \o BedWord,
   <<"0", " ">> \o BedWord}

AiSearchRequests ==
  [route : {"ai"},
   query : {[kind |-> "string", text |-> t] : t \in AiQueryTexts}
             \cup {[kind |-> "undefined", text |-> <<>>]},
   userFound : BOOLEAN, preferences : Preferences]

\* the smart-recommendations requests without a bedroom or property-type
\* preference
PlainRequests ==
  {r \in Requests : ~r.preferences.bedrooms.present
                      /\ ~r.preferences.propertyTypes.present}

SearchInit ==
  /\ searchHistory = <<>>
  /\ searchClock = 0
  /\ histRequest = IdleHistRequest
  /\ histResponse = NoHistResponse
  /\ user = Null
  /\ token = Null
  /\ loading = TRUE
  /\ storedToken = Null
  /\ effectDue = FALSE
  /\ pendingChecks = 0
  /\ authResult = NoAuthResult
  /\ messages = NoMessages
  /\ msgRequest = IdleMsgRequest
  /\ msgResponse = NoMsgResponse
  /\ openaiConfigured = FALSE
  /\ openaiQuotaExceeded = FALSE
  /\ envQuotaExceeded = FALSE
  /\ aiRequest = IdleAiRequest
  /\ aiResponse = NoAiResponse
  /\ savedProperties = NoSavedProperties
  /\ saves = NoSaves
  /\ inflight = NoRequests
  /\ properties \in Stores
  /\ storeFails \in BOOLEAN
  /\ \/ searchRequest \in SearchRequests \cup AiSearchRequests /\ recRequest = IdleRequest
     \/ searchRequest = IdleSearch /\ recRequest \in PlainRequests
  /\ searchResponse = NoSearchResponse
  /\ recResponse = NoResponse
  /\ rentInput = IdleRentInput
  /\ rentResult = NoEstimate
  /\ scoreInput = IdleScoreInput
  /\ scoreResult = NoScore
  /\ query = IdleQuery
  /\ filters = NotParsed
  /\ marketLocation = IdleLocation
  /\ marketResult = NoMarketData
  /\ propertyDoc = IdlePropertyDoc
  /\ nextImageId = 1
  /\ updRequest = IdleUpdate
  /\ updResponse = NoUpdateResponse

NaturalSearch ==
  /\ searchRequest.route = "search"
  /\ searchResponse = NoSearchResponse
  /\ searchResponse' = naturalSearch(searchRequest, properties, storeFails)
  /\ properties' = StoreAfterSearch(properties, searchResponse'.properties)
  /\ UNCHANGED <<storeFails, searchRequest, notSearchVars>>

AiNaturalSearch ==
  /\ searchRequest.route = "ai"
  /\ searchResponse = NoSearchResponse
  /\ searchResponse' = aiNaturalSearch(searchRequest, properties, storeFails)
  /\ UNCHANGED <<storeVars, searchRequest, notSearchVars>>

SearchNext == NaturalSearch \/ AiNaturalSearch \/ SmartRecommendations

\* C13: handling a natural-language search or a smart-recommendations request
\* leaves the stored listings as they were; a listing that has a rent is
\* returned with that rent, and a rent that differs from the stored one is an
\* estimate of a listing without rent, present in the response only and
\* marked estimated.
C13_SearchLeavesStoreUnchanged ==
  [][ /\ properties' = properties
      /\ searchRequest.route = "search" =>
           \A i \in DOMAIN searchResponse'.properties :
             LET item == searchResponse'.properties[i]
             IN  /\ item.listing \in properties'
                 /\ Truthy(item.listing.rent)
                      => item.rent = item.listing.rent /\ ~item.estimated
                 /\ item.rent # item.listing.rent
                      => item.estimated /\ ~Truthy(item.listing.rent)
      /\ \A i \in DOMAIN recResponse'.recommendations :
           recResponse'.recommendations[i].listing \in properties' ]_vars

\* a listing without rent was returned with an estimate, and is stored
\* without rent still
C13_EstimateOnlyInResponse ==
  /\ searchRequest.route = "search"
  /\ \E i \in DOMAIN searchResponse.properties :
       /\ searchResponse.properties[i].estimated
       /\ searchResponse.properties[i].rent.k = "num"
       /\ searchResponse.properties[i].listing.rent = Undefined
       /\ searchResponse.properties[i].listing \in properties

\* C14: the properties returned by the natural-language search of routes/ai.js
\* are in the order of non-increasing personalized score.
C14_OrderedByPersonalizedScore ==
  (searchRequest.route = "ai" /\ searchResponse.status = 200) =>
    \A i, j \in DOMAIN searchResponse.properties :
      i < j => JsGe(searchResponse.properties[i].personalizedScore,
                    searchResponse.properties[j].personalizedScore)

\* the listing satisfies every field present in the parsed filter object
SatisfiesFilters(p, f) ==
  /\ f.maxRent # Undefined => JsLe(p.rent, f.maxRent)
  /\ f.bedrooms # Undefined => p.bedrooms = f.bedrooms
  /\ f.city.present => Contains(toLowerCase(p.city), toLowerCase(Join(f.city.text)))

\* C21: every listing returned by the natural-language search of routes/ai.js
\* has status active and satisfies every field present in the filters parsed
\* from the query, the values bedrooms = 0 and maxRent = 0 included.
C21_ResultsSatisfyParsedFilters ==
  (searchRequest.route = "ai" /\ searchResponse.status = 200) =>
    \A i \in DOMAIN searchResponse.properties :
      /\ searchResponse.properties[i].listing.status = "active"
      /\ SatisfiesFilters(searchResponse.properties[i].listing,
                          parseNaturalLanguageQuery(searchRequest.query))

(***************************************************************************)
(* Saving and unsaving a property (routes/properties.js).  A request reads *)
(* the property, reads the user, saves the user and saves the property;    *)
(* each await is a step, so the steps of requests in progress interleave.  *)
(***************************************************************************)
\* user.savedProperties.some(id => id.toString() === property._id.toString())
alreadySaved_Never(saved, property) == FALSE

alreadySaved(saved, property) == \E i \in DOMAIN saved : saved[i] = property

\* user.savedProperties.findIndex(id => id.toString() === req.params.id),
\* from 1; 0 when there is none
FindSaved(saved, property) ==
  IF alreadySaved(saved, property)
  THEN CHOOSE i \in DOMAIN saved :
         saved[i] = property /\ \A j \in 1..(i - 1) : saved[j] # property
  ELSE 0

\* user.savedProperties.splice(propertyIndex, 1)
Spliced(saved, at) == SubSeq(saved, 1, at - 1) \o SubSeq(saved, at + 1, Len(saved))

\* (property.analytics.saves || 0) + 1
SavesAfterSave(n) == n + 1

\* Math.max(0, (property.analytics.saves || 1) - 1)
SavesAfterUnsave(n) ==
  LET m == (IF n = 0 THEN 1 ELSE n) - 1
  IN  IF m < 0 THEN 0 ELSE m

NewRequest(kind, userId, property) ==
  [pc |-> "findProperty", kind |-> kind, user |-> userId, property |-> property,
   savedRead |-> <<>>, savesRead |-> 0, stale |-> FALSE, status |-> 0]

\* the request answers with the status and ends
Answered(r, status) == [inflight EXCEPT ![r].pc = "done", ![r].status = status]

\* the requests that have read the user's document and not yet saved it see
\* its version change when r saves it
Outdated(r, next) ==
  [x \in SaveRequestIds |->
     IF x = r THEN [inflight[r] EXCEPT !.pc = next]
     ELSE IF inflight[x].pc = "saveUser" /\ inflight[x].user = inflight[r].user
          THEN [inflight[x] EXCEPT !.stale = TRUE]
          ELSE inflight[x]]

\* await Property.findById(req.params.id), then the check of the user id
FindProperty ==
  \E r \in SaveRequestIds :
    /\ inflight[r].pc = "findProperty"
    /\ inflight' =
         IF inflight[r].property \notin SavedIds THEN Answered(r, 404)
         ELSE IF inflight[r].user = "" THEN Answered(r, 401)
         ELSE [inflight EXCEPT ![r].pc = "findUser",
                               ![r].savesRead = saves[inflight[r].property]]
    /\ UNCHANGED <<savedProperties, saves, notSaveVars>>

\* await User.findById(userId), then the check of the saved list
FindUser ==
  \E r \in SaveRequestIds :
    /\ inflight[r].pc = "findUser"
    /\ inflight' =
         IF inflight[r].user \notin Savers THEN Answered(r, 404)
         ELSE IF (inflight[r].kind = "save")
                   = alreadySaved(savedProperties[inflight[r].user], inflight[r].property)
              THEN Answered(r, 400)
              ELSE [inflight EXCEPT ![r].pc = "saveUser",
                                    ![r].savedRead = savedProperties[inflight[r].user]]
    /\ UNCHANGED <<savedProperties, saves, notSaveVars>>

\* await user.save(): a push is sent as $push on the stored array; a splice
\* is sent as $set of the whole array under the document version read, and
\* fails with a VersionError (answered 500) when the version has changed
SaveUser ==
  \E r \in SaveRequestIds :
    LET q == inflight[r]
    IN  /\ q.pc = "saveUser"
        /\ IF q.kind = "save"
           THEN /\ savedProperties' =
                     [savedProperties EXCEPT ![q.user] = Append(@, q.property)]
                /\ inflight' = Outdated(r, "saveProperty")
           ELSE IF q.stale
                THEN /\ inflight' = Answered(r, 500)
                     /\ UNCHANGED savedProperties
                ELSE /\ savedProperties' =
                          [savedProperties EXCEPT
                             ![q.user] = Spliced(q.savedRead,
                                                 FindSaved(q.savedRead, q.property))]
                     /\ inflight' = Outdated(r, "saveProperty")
        /\ UNCHANGED <<saves, notSaveVars>>

\* await property.save() with the counter computed from the one read
SaveProperty ==
  \E r \in SaveRequestIds :
    LET q == inflight[r]
    IN  /\ q.pc = "saveProperty"
        /\ saves' = [saves EXCEPT ![q.property] =
                       IF q.kind = "save" THEN SavesAfterSave(q.savesRead)
                       ELSE SavesAfterUnsave(q.savesRead)]
        /\ inflight' = Answered(r, 200)
        /\ UNCHANGED <<savedProperties, notSaveVars>>

\* a request arrives while no other is in progress
Arrive ==
  \E r \in SaveRequestIds, kind \in {"save", "unsave"},
     userId \in Savers \cup {"nobody", ""}, property \in SavedIds \cup {"gone"} :
    /\ \A x \in SaveRequestIds : inflight[x].pc \in {"idle", "done"}
    /\ inflight' = [NoRequests EXCEPT ![r] = NewRequest(kind, userId, property)]
    /\ UNCHANGED <<savedProperties, saves, notSaveVars>>

\* Concurrent requests on property p1, which the users of any set have saved
SaveInit ==
  /\ searchHistory = <<>>
  /\ searchClock = 0
  /\ histRequest = IdleHistRequest
  /\ histResponse = NoHistResponse
  /\ user = Null
  /\ token = Null
  /\ loading = TRUE
  /\ storedToken = Null
  /\ effectDue = FALSE
  /\ pendingChecks = 0
  /\ authResult = NoAuthResult
  /\ messages = NoMessages
  /\ msgRequest = IdleMsgRequest
  /\ msgResponse = NoMsgResponse
  /\ openaiConfigured = FALSE
  /\ openaiQuotaExceeded = FALSE
  /\ envQuotaExceeded = FALSE
  /\ aiRequest = IdleAiRequest
  /\ aiResponse = NoAiResponse
  /\ \E saved \in SUBSET Savers :
       /\ savedProperties = [u \in Savers |-> IF u \in saved THEN <<"p1">> ELSE <<>>]
       /\ saves = [NoSaves EXCEPT !["p1"] = Cardinality(saved)]
  /\ inflight \in [SaveRequestIds ->
                     {NewRequest(kind, userId, "p1") : kind \in {"save", "unsave"},
                                                     userId \in Savers}]
  /\ rentInput = IdleRentInput
  /\ rentResult = NoEstimate
  /\ scoreInput = IdleScoreInput
  /\ scoreResult = NoScore
  /\ query = IdleQuery
  /\ filters = NotParsed
  /\ properties = {}
  /\ storeFails = FALSE
  /\ recRequest = IdleRequest
  /\ recResponse = NoResponse
  /\ marketLocation = IdleLocation
  /\ marketResult = NoMarketData
  /\ propertyDoc = IdlePropertyDoc
  /\ nextImageId = 1
  /\ updRequest = IdleUpdate
  /\ updResponse = NoUpdateResponse
  /\ searchRequest = IdleSearch
  /\ searchResponse = NoSearchResponse

SaveNext == FindProperty \/ FindUser \/ SaveUser \/ SaveProperty

\* Sequential requests: one at a time, any number of them
SaveSeqInit ==
  /\ searchHistory = <<>>
  /\ searchClock = 0
  /\ histRequest = IdleHistRequest
  /\ histResponse = NoHistResponse
  /\ user = Null
  /\ token = Null
  /\ loading = TRUE
  /\ storedToken = Null
  /\ effectDue = FALSE
  /\ pendingChecks = 0
  /\ authResult = NoAuthResult
  /\ messages = NoMessages
  /\ msgRequest = IdleMsgRequest
  /\ msgResponse = NoMsgResponse
  /\ openaiConfigured = FALSE
  /\ openaiQuotaExceeded = FALSE
  /\ envQuotaExceeded = FALSE
  /\ aiRequest = IdleAiRequest
  /\ aiResponse = NoAiResponse
  /\ savedProperties = NoSavedProperties
  /\ saves = NoSaves
  /\ inflight = NoRequests
  /\ rentInput = IdleRentInput
  /\ rentResult = NoEstimate
  /\ scoreInput = IdleScoreInput
  /\ scoreResult = NoScore
  /\ query = IdleQuery
  /\ filters = NotParsed
  /\ properties = {}
  /\ storeFails = FALSE
  /\ recRequest = IdleRequest
  /\ recResponse = NoResponse
  /\ marketLocation = IdleLocation
  /\ marketResult = NoMarketData
  /\ propertyDoc = IdlePropertyDoc
  /\ nextImageId = 1
  /\ updRequest = IdleUpdate
  /\ updResponse = NoUpdateResponse
  /\ searchRequest = IdleSearch
  /\ searchResponse = NoSearchResponse

SaveSeqNext == Arrive \/ FindProperty \/ FindUser \/ SaveUser \/ SaveProperty

AllAnswered == \A r \in SaveRequestIds : inflight[r].pc = "done"

SaversOf(property) == {u \in Savers : alreadySaved(savedProperties[u], property)}

\* C23: once all requests have completed, analytics.saves of every property
\* is the number of users whose savedProperties contains it, and not
\* negative.
C23_SavesCountsSavers ==
  AllAnswered =>
    \A property \in SavedIds :
      saves[property] = Cardinality(SaversOf(property)) /\ saves[property] >= 0

InList(list, x) == \E i \in DOMAIN list : list[i] = x

NoDuplicates(list) == \A i, j \in DOMAIN list : list[i] = list[j] => i = j

\* the request in slot r is a save of a property on the user's list, or an
\* unsave of a property not on it
Redundant(r) ==
  /\ inflight[r].user \in Savers
  /\ (inflight[r].kind = "save")
       = InList(savedProperties[inflight[r].user], inflight[r].property)

\* C24: a save of a property already in the user's savedProperties, and an
\* unsave of one not in it, is answered 400 and changes neither the saved
\* lists nor the save counters; with requests handled one after the other no
\* property is ever twice in a user's savedProperties.
C24_RedundantRequestsRejected ==
  /\ [](\A u \in Savers : NoDuplicates(savedProperties[u]))
  /\ [][\A r \in SaveRequestIds :
          (inflight[r].pc = "findUser" /\ inflight'[r] # inflight[r] /\ Redundant(r)) =>
            /\ inflight'[r].pc = "done"
            /\ inflight'[r].status = 400
            /\ savedProperties' = savedProperties
            /\ saves' = saves]_vars

\* a second save of the same property by the same user has been refused
C24_SecondSaveRefused ==
  \E r \in SaveRequestIds :
    /\ inflight[r].pc = "done"
    /\ inflight[r].kind = "save"
    /\ inflight[r].status = 400
    /\ savedProperties[inflight[r].user] = <<inflight[r].property>>
    /\ saves[inflight[r].property] = 1

(***************************************************************************)
(* The LLM-backed endpoints of routes/ai.js: POST /onboarding-chat and     *)
(* POST /generate-description, with the module-level quota flag.           *)
(***************************************************************************)
\* what openai.chat.completions.create would do if called: a completion, or
\* an error with an HTTP status (0: none, as for a timeout) and a message
\* that may contain 'quota' or '429'
LlmOutcomes ==
  {[kind |-> "ok", status |-> 200, hasQuota |-> FALSE, has429 |-> FALSE]}
    \cup {[kind |-> "error", status |-> st, hasQuota |-> q, has429 |-> n] :
            st \in {0, 429, 500}, q \in BOOLEAN, n \in BOOLEAN}

\* openaiError.status === 429 ||
\*   (openaiError.message && openaiError.message.includes('quota'))
QuotaErrorInChat_AnyError(outcome) == outcome.kind = "error"

QuotaErrorInChat(outcome) ==
  outcome.kind = "error" /\ (outcome.status = 429 \/ outcome.hasQuota)

\* error.message.includes('quota') || error.message.includes('429') ||
\*   error.status === 429
QuotaErrorInDescription(outcome) ==
  outcome.kind = "error" /\ (outcome.hasQuota \/ outcome.has429 \/ outcome.status = 429)

AiAnswer(status, source, fallback, reason, called) ==
  [status |-> status, source |-> source, fallback |-> fallback,
   fallbackReason |-> reason, llmCalled |-> called]

\* the outer catch of /onboarding-chat: 'AI service error'
ChatError(called) == AiAnswer(500, "error", FALSE, "", called)

\* POST /onboarding-chat.  message.toLowerCase() throws for a body without a
\* message; user.preferences throws when preferences were extracted and the
\* user is not found.
onboardingChat(req, configured, flag) ==
  IF ~configured \/ flag
  THEN [flag |-> flag,
        response |->
          IF ~req.bodyPresent THEN ChatError(FALSE)
          ELSE AiAnswer(200, "fallback", TRUE,
                        IF ~configured THEN "not_configured" ELSE "quota_exceeded", FALSE)]
  ELSE [flag |-> flag \/ QuotaErrorInChat(req.outcome),
        response |->
          IF ~req.bodyPresent \/ (req.hasPrefs /\ ~req.userFound) THEN ChatError(TRUE)
          ELSE AiAnswer(200, IF req.outcome.kind = "ok" THEN "openai" ELSE "fallback",
                        FALSE, "", TRUE)]

\* POST /generate-description
generateDescription(req, configured, flag, env) ==
  IF ~req.bodyPresent
  THEN [flag |-> flag, env |-> env,
        response |-> AiAnswer(400, "fallback", TRUE, "missing_property_data", FALSE)]
  ELSE IF ~configured \/ flag \/ env
  THEN [flag |-> flag, env |-> env,
        response |->
          AiAnswer(200, "fallback", TRUE,
                   IF ~configured THEN "not_configured"
                   ELSE IF flag THEN "quota_exceeded" ELSE "quota_exceeded_env",
                   FALSE)]
  ELSE IF req.outcome.kind = "ok"
  THEN [flag |-> flag, env |-> env,
        response |-> AiAnswer(200, "openai", FALSE, "", TRUE)]
  ELSE [flag |-> flag \/ QuotaErrorInDescription(req.outcome),
        env |-> env \/ QuotaErrorInDescription(req.outcome),
        response |-> AiAnswer(200, "fallback", TRUE, "api_error", TRUE)]

AiRequests(route) ==
  [route : {route}, bodyPresent : BOOLEAN, hasPrefs : BOOLEAN, userFound : BOOLEAN,
   outcome : LlmOutcomes]

\* the module is loaded with or without an API key; OPENAI_QUOTA_EXCEEDED
\* may be set in the environment
AiInit ==
  /\ searchHistory = <<>>
  /\ searchClock = 0
  /\ histRequest = IdleHistRequest
  /\ histResponse = NoHistResponse
  /\ user = Null
  /\ token = Null
  /\ loading = TRUE
  /\ storedToken = Null
  /\ effectDue = FALSE
  /\ pendingChecks = 0
  /\ authResult = NoAuthResult
  /\ messages = NoMessages
  /\ msgRequest = IdleMsgRequest
  /\ msgResponse = NoMsgResponse
  /\ openaiConfigured \in BOOLEAN
  /\ openaiQuotaExceeded = FALSE
  /\ envQuotaExceeded \in BOOLEAN
  /\ aiRequest = IdleAiRequest
  /\ aiResponse = NoAiResponse
  /\ rentInput = IdleRentInput
  /\ rentResult = NoEstimate
  /\ scoreInput = IdleScoreInput
  /\ scoreResult = NoScore
  /\ query = IdleQuery
  /\ filters = NotParsed
  /\ properties = {}
  /\ storeFails = FALSE
  /\ recRequest = IdleRequest
  /\ recResponse = NoResponse
  /\ marketLocation = IdleLocation
  /\ marketResult = NoMarketData
  /\ propertyDoc = IdlePropertyDoc
  /\ nextImageId = 1
  /\ updRequest = IdleUpdate
  /\ updResponse = NoUpdateResponse
  /\ searchRequest = IdleSearch
  /\ searchResponse = NoSearchResponse
  /\ savedProperties = NoSavedProperties
  /\ saves = NoSaves
  /\ inflight = NoRequests

OnboardingChat ==
  \E req \in AiRequests("onboarding-chat") :
    LET out == onboardingChat(req, openaiConfigured, openaiQuotaExceeded)
    IN  /\ aiRequest' = req
        /\ openaiQuotaExceeded' = out.flag
        /\ aiResponse' = out.response
        /\ UNCHANGED <<openaiConfigured, envQuotaExceeded, notAiVars>>

GenerateDescription ==
  \E req \in AiRequests("generate-description") :
    LET out == generateDescription(req, openaiConfigured, openaiQuotaExceeded,
                                   envQuotaExceeded)
    IN  /\ aiRequest' = req
        /\ openaiQuotaExceeded' = out.flag
        /\ envQuotaExceeded' = out.env
        /\ aiResponse' = out.response
        /\ UNCHANGED <<openaiConfigured, notAiVars>>

AiNext == OnboardingChat \/ GenerateDescription

\* the flag stays set, and a request handled while it is set makes no LLM
\* call and is answered by the fallback (a chat request without a message by
\* the error response when withMessage is FALSE)
FlagSticksAndGates(withMessage) ==
  openaiQuotaExceeded =>
    /\ openaiQuotaExceeded'
    /\ ~aiResponse'.llmCalled
    /\ aiResponse'.source # "openai"
    /\ (withMessage \/ aiRequest'.bodyPresent) =>
         aiResponse'.source = "fallback" /\ aiResponse'.fallback

\* the LLM error of the request handled is a quota error: HTTP status 429 or
\* a message containing 'quota'
QuotaErrorHandled ==
  /\ aiRequest'.outcome.kind = "error"
  /\ aiRequest'.outcome.status = 429 \/ aiRequest'.outcome.hasQuota

\* C25 (as claimed): once set, the flag is never cleared and every later
\* request of the two endpoints is answered from the fallback without an LLM
\* call; the flag is set only by an LLM error with status 429 or a message
\* containing 'quota'.
C25_QuotaFlagLatches ==
  [][/\ FlagSticksAndGates(TRUE)
     /\ (~openaiQuotaExceeded /\ openaiQuotaExceeded') => QuotaErrorHandled]_vars

\* C25 (amended): as claimed, except that a chat request without a message
\* is answered by the 500 error response (still without an LLM call), and
\* that generate-description also sets the flag on an LLM error whose message
\* contains '429'.
C25_QuotaFlagLatchesOn429Message ==
  [][/\ FlagSticksAndGates(FALSE)
     /\ (~openaiQuotaExceeded /\ openaiQuotaExceeded') =>
          \/ QuotaErrorHandled
          \/ /\ aiRequest'.route = "generate-description"
             /\ aiRequest'.outcome.kind = "error"
             /\ aiRequest'.outcome.has429]_vars

\* with the flag set, a request the LLM would have answered gets the
\* fallback with reason quota_exceeded and no LLM call
C25_AnsweredFromFallback ==
  /\ openaiQuotaExceeded
  /\ openaiConfigured
  /\ aiRequest # IdleAiRequest
  /\ aiRequest.outcome.kind = "ok"
  /\ aiResponse.fallbackReason = "quota_exceeded"
  /\ ~aiResponse.llmCalled

(***************************************************************************)
(* Messages: models/Message.js, routes/messages.js and the contact and     *)
(* message endpoints of routes/properties.js                               *)
(***************************************************************************)
\* the users a token can name, and the addresses a token or a contact form
\* can carry
MessageUsers == {"u1", "u2"}

SenderEmails == {"a@x", "b@x"}

\* messageSchema.status.enum
StatusEnum == {"unread", "read", "replied", "archived"}

\* the list PUT /api/messages/:id/status tests the body against
AcceptedStatuses == {"read", "unread", "archived", "replied"}

\* what a request body can carry as status: the enumerated strings and one
\* string outside the enumeration
StatusInputs == StatusEnum \union {"spam"}

NewMessage(landlord, email) ==
  [exists |-> TRUE, to |-> landlord, from |-> email, status |-> "unread"]

\* Message.findOne({ _id, $or: [{ to: userId }, { 'from.email': email }] })
FindForParty(store, id, userId, email) ==
  /\ store[id].exists
  /\ (store[id].to = userId \/ store[id].from = email)

\* the filter { _id, to: userId } of the findOneAndUpdate calls
FindForRecipient(store, id, userId) ==
  /\ store[id].exists
  /\ store[id].to = userId

MsgOutcome(store, status) == [messages |-> store, response |-> [status |-> status]]

\* a variant of GET /api/messages/:id that marks the message read for whoever
\* fetched it
getMessage_MarksForAnyone(req, store) ==
  IF ~FindForParty(store, req.id, req.userId, req.email)
  THEN MsgOutcome(store, 404)
  ELSE IF store[req.id].status = "unread"
       THEN MsgOutcome([store EXCEPT ![req.id].status = "read"], 200)
       ELSE MsgOutcome(store, 200)

\* GET /api/messages/:id
getMessage(req, store) ==
  IF ~FindForParty(store, req.id, req.userId, req.email)
  THEN MsgOutcome(store, 404)
  ELSE IF store[req.id].status = "unread" /\ store[req.id].to = req.userId
       THEN MsgOutcome([store EXCEPT ![req.id].status = "read"], 200)
       ELSE MsgOutcome(store, 200)

\* PUT /api/messages/:id/status
updateStatus(req, store) ==
  IF req.status \notin AcceptedStatuses
  THEN MsgOutcome(store, 400)
  ELSE IF ~FindForRecipient(store, req.id, req.userId)
       THEN MsgOutcome(store, 404)
       ELSE MsgOutcome([store EXCEPT ![req.id].status = req.status], 200)

\* DELETE /api/messages/:id
deleteMessage(req, store) ==
  IF ~FindForRecipient(store, req.id, req.userId)
  THEN MsgOutcome(store, 404)
  ELSE MsgOutcome([store EXCEPT ![req.id].status = "archived"], 200)

\* PUT /api/properties/messages/:id/status: the body's status goes into the
\* update as it is, and findOneAndUpdate runs no validators
updateMessageStatus(req, store) ==
  IF ~FindForRecipient(store, req.id, req.userId)
  THEN MsgOutcome(store, 404)
  ELSE MsgOutcome([store EXCEPT ![req.id].status = req.status], 200)

FreeIds(store) == {m \in MessageIds : ~store[m].exists}

\* POST /api/properties/contact: 400 on a missing field or malformed address,
\* 404 on an unknown property, 500 when the transaction aborts
contact(req, store) ==
  IF ~req.complete
  THEN MsgOutcome(store, 400)
  ELSE IF ~req.found
       THEN MsgOutcome(store, 404)
       ELSE IF ~req.commits
            THEN MsgOutcome(store, 500)
            ELSE LET id == CHOOSE m \in FreeIds(store) : TRUE
                 IN  MsgOutcome([store EXCEPT ![id] = NewMessage(req.landlord, req.email)], 200)

MsgRequests(route) ==
  IF route = "contact"
  THEN [route : {route}, complete : BOOLEAN, found : BOOLEAN, commits : BOOLEAN,
        landlord : MessageUsers, email : SenderEmails]
  ELSE IF route \in {"status", "propStatus"}
       THEN [route : {route}, userId : MessageUsers, email : SenderEmails,
             id : MessageIds, status : StatusInputs]
       ELSE [route : {route}, userId : MessageUsers, email : SenderEmails,
             id : MessageIds]

MessageInit ==
  /\ searchHistory = <<>>
  /\ searchClock = 0
  /\ histRequest = IdleHistRequest
  /\ histResponse = NoHistResponse
  /\ user = Null
  /\ token = Null
  /\ loading = TRUE
  /\ storedToken = Null
  /\ effectDue = FALSE
  /\ pendingChecks = 0
  /\ authResult = NoAuthResult
  /\ messages = NoMessages
  /\ msgRequest = IdleMsgRequest
  /\ msgResponse = NoMsgResponse
  /\ rentInput = IdleRentInput
  /\ rentResult = NoEstimate
  /\ scoreInput = IdleScoreInput
  /\ scoreResult = NoScore
  /\ query = IdleQuery
  /\ filters = NotParsed
  /\ properties = {}
  /\ storeFails = FALSE
  /\ recRequest = IdleRequest
  /\ recResponse = NoResponse
  /\ marketLocation = IdleLocation
  /\ marketResult = NoMarketData
  /\ propertyDoc = IdlePropertyDoc
  /\ nextImageId = 1
  /\ updRequest = IdleUpdate
  /\ updResponse = NoUpdateResponse
  /\ searchRequest = IdleSearch
  /\ searchResponse = NoSearchResponse
  /\ savedProperties = NoSavedProperties
  /\ saves = NoSaves
  /\ inflight = NoRequests
  /\ openaiConfigured = FALSE
  /\ openaiQuotaExceeded = FALSE
  /\ envQuotaExceeded = FALSE
  /\ aiRequest = IdleAiRequest
  /\ aiResponse = NoAiResponse

Contact ==
  /\ FreeIds(messages) # {}
  /\ \E req \in MsgRequests("contact") :
       LET out == contact(req, messages)
       IN  /\ msgRequest' = req
           /\ messages' = out.messages
           /\ msgResponse' = out.response
  /\ UNCHANGED notMessageVars

GetMessage ==
  /\ \E req \in MsgRequests("get") :
       LET out == getMessage(req, messages)
       IN  /\ msgRequest' = req
           /\ messages' = out.messages
           /\ msgResponse' = out.response
  /\ UNCHANGED notMessageVars

UpdateStatus ==
  /\ \E req \in MsgRequests("status") :
       LET out == updateStatus(req, messages)
       IN  /\ msgRequest' = req
           /\ messages' = out.messages
           /\ msgResponse' = out.response
  /\ UNCHANGED notMessageVars

DeleteMessage ==
  /\ \E req \in MsgRequests("delete") :
       LET out == deleteMessage(req, messages)
       IN  /\ msgRequest' = req
           /\ messages' = out.messages
           /\ msgResponse' = out.response
  /\ UNCHANGED notMessageVars

UpdateMessageStatus ==
  /\ \E req \in MsgRequests("propStatus") :
       LET out == updateMessageStatus(req, messages)
       IN  /\ msgRequest' = req
           /\ messages' = out.messages
           /\ msgResponse' = out.response
  /\ UNCHANGED notMessageVars

MessageNext ==
  \/ Contact
  \/ GetMessage
  \/ UpdateStatus
  \/ DeleteMessage
  \/ UpdateMessageStatus

StatusInEnum == \A m \in MessageIds : messages[m].exists => messages[m].status \in StatusEnum

CreatedUnread ==
  \A m \in MessageIds :
    (~messages[m].exists /\ messages'[m].exists) => messages'[m].status = "unread"

\* C26: after any sequence of requests to the message endpoints of both
\* routers every stored message's status is one of unread, read, replied,
\* archived, and a message is created with status unread.
C26_StatusAlwaysEnumerated == []StatusInEnum /\ [][CreatedUnread]_vars

StatusChanged(m) == messages'[m].status # messages[m].status

ByRecipient(m) ==
  /\ msgRequest'.route \in {"get", "status", "delete", "propStatus"}
  /\ msgRequest'.id = m
  /\ msgRequest'.userId = messages[m].to

DeleteArchives ==
  (msgRequest'.route = "delete" /\ msgResponse'.status = 200)
    => messages'[msgRequest'.id].status = "archived"

\* C27: a message's status changes only in a request whose token names the
\* message's recipient; a fetch, status update or delete by anyone else, the
\* sender included, leaves it as it was; no request removes a stored message,
\* and a successful delete leaves it stored with status archived.
C27_OnlyRecipientChangesStatus ==
  [][/\ \A m \in MessageIds :
          messages[m].exists =>
            /\ messages'[m].exists
            /\ (StatusChanged(m) => ByRecipient(m))
     /\ DeleteArchives]_vars

\* the sender fetched their own message and it is still unread
C27_SenderFetchLeavesUnread ==
  /\ msgRequest.route = "get"
  /\ msgResponse.status = 200
  /\ messages[msgRequest.id].from = msgRequest.email
  /\ messages[msgRequest.id].to # msgRequest.userId
  /\ messages[msgRequest.id].status = "unread"

(***************************************************************************)
(* The client's AuthProvider (client/src/contexts/AuthContext.js) and      *)
(* ProtectedRoute (client/src/components/ProtectedRoute.js).  A step is    *)
(* what runs between two awaits: the effect on [token] up to its request,  *)
(* and the continuation of each request with the state updates it batches. *)
(***************************************************************************)
\* the tokens the server hands out, and the users it answers with (a user
\* stands for its role)
AuthTokens == {"t1", "t2"}

AuthUsers == {"renter", "landlord"}

\* the /auth/me requests that can be in flight together
MaxPendingChecks == 2

\* value.isAuthenticated: !!user
isAuthenticated == user # Null

\* value.isLandlord
isLandlord == user = "landlord"

\* what ProtectedRoute returns
ProtectedRoute(requireLandlord) ==
  IF loading
  THEN "spinner"
  ELSE IF ~isAuthenticated
       THEN "login"
       ELSE IF requireLandlord /\ ~isLandlord
            THEN "dashboard"
            ELSE "children"

\* what login and register return: { success, user } or { success, message }
AuthResult(call, success) == [call |-> call, success |-> success]

\* setToken(next): the effect on [token] is due again when the value changed
SetToken(next) ==
  /\ token' = next
  /\ effectDue' = (effectDue \/ next # token)

AuthInit ==
  /\ searchHistory = <<>>
  /\ searchClock = 0
  /\ histRequest = IdleHistRequest
  /\ histResponse = NoHistResponse
  /\ user = Null
  /\ loading = TRUE
  /\ token \in AuthTokens \union {Null}
  /\ storedToken = token
  /\ effectDue = TRUE
  /\ pendingChecks = 0
  /\ authResult = NoAuthResult
  /\ rentInput = IdleRentInput
  /\ rentResult = NoEstimate
  /\ scoreInput = IdleScoreInput
  /\ scoreResult = NoScore
  /\ query = IdleQuery
  /\ filters = NotParsed
  /\ properties = {}
  /\ storeFails = FALSE
  /\ recRequest = IdleRequest
  /\ recResponse = NoResponse
  /\ marketLocation = IdleLocation
  /\ marketResult = NoMarketData
  /\ propertyDoc = IdlePropertyDoc
  /\ nextImageId = 1
  /\ updRequest = IdleUpdate
  /\ updResponse = NoUpdateResponse
  /\ searchRequest = IdleSearch
  /\ searchResponse = NoSearchResponse
  /\ savedProperties = NoSavedProperties
  /\ saves = NoSaves
  /\ inflight = NoRequests
  /\ openaiConfigured = FALSE
  /\ openaiQuotaExceeded = FALSE
  /\ envQuotaExceeded = FALSE
  /\ aiRequest = IdleAiRequest
  /\ aiResponse = NoAiResponse
  /\ messages = NoMessages
  /\ msgRequest = IdleMsgRequest
  /\ msgResponse = NoMsgResponse

\* checkAuth up to its await: with a token it sends GET /auth/me, without one
\* it only ends the loading state
CheckAuth ==
  /\ effectDue
  /\ effectDue' = FALSE
  /\ IF token # Null
     THEN /\ pendingChecks < MaxPendingChecks
          /\ pendingChecks' = pendingChecks + 1
          /\ UNCHANGED loading
     ELSE /\ loading' = FALSE
          /\ UNCHANGED pendingChecks
  /\ UNCHANGED <<user, token, storedToken, authResult, notAuthVars>>

\* checkAuth after its await, the request answered with the user
CheckAuthSucceeds ==
  /\ pendingChecks > 0
  /\ pendingChecks' = pendingChecks - 1
  /\ \E data \in AuthUsers : user' = data
  /\ loading' = FALSE
  /\ UNCHANGED <<token, storedToken, effectDue, authResult, notAuthVars>>

\* checkAuth after its await, the request failed: the catch removes the token
\* and leaves the user as it is
CheckAuthFails ==
  /\ pendingChecks > 0
  /\ pendingChecks' = pendingChecks - 1
  /\ storedToken' = Null
  /\ SetToken(Null)
  /\ loading' = FALSE
  /\ UNCHANGED <<user, authResult, notAuthVars>>

\* login and register after their await: a response with a token and a user
\* sets both, a failure (or a login response without a token) sets nothing
login ==
  /\ \E ok \in BOOLEAN, newToken \in AuthTokens, userData \in AuthUsers :
       IF ok
       THEN /\ storedToken' = newToken
            /\ SetToken(newToken)
            /\ authResult' = AuthResult("login", TRUE)
            /\ user' = userData
       ELSE /\ authResult' = AuthResult("login", FALSE)
            /\ UNCHANGED <<storedToken, token, effectDue, user>>
  /\ UNCHANGED <<loading, pendingChecks, notAuthVars>>

register ==
  /\ \E ok \in BOOLEAN, newToken \in AuthTokens, newUser \in AuthUsers :
       IF ok
       THEN /\ storedToken' = newToken
            /\ SetToken(newToken)
            /\ authResult' = AuthResult("register", TRUE)
            /\ user' = newUser
       ELSE /\ authResult' = AuthResult("register", FALSE)
            /\ UNCHANGED <<storedToken, token, effectDue, user>>
  /\ UNCHANGED <<loading, pendingChecks, notAuthVars>>

logout ==
  /\ storedToken' = Null
  /\ SetToken(Null)
  /\ user' = Null
  /\ UNCHANGED <<loading, pendingChecks, authResult, notAuthVars>>

AuthNext ==
  \/ CheckAuth
  \/ CheckAuthSucceeds
  \/ CheckAuthFails
  \/ login
  \/ register
  \/ logout

\* C28: in AuthProvider a non-null user implies a non-null token, so
\* isAuthenticated is false whenever the token is cleared and ProtectedRoute
\* never renders its children without a token.
C28_UserImpliesToken ==
  /\ user # Null => token # Null
  /\ \A requireLandlord \in BOOLEAN :
       ProtectedRoute(requireLandlord) = "children" => token # Null

(***************************************************************************)
(* The search history: POST /api/search/advanced (routes/search.js), GET   *)
(* and DELETE /api/users/search-history (routes/users.js).  An entry is    *)
(* identified by its timestamp, the number of the recorded search.         *)
(***************************************************************************)
\* the searches recorded in one run
MaxSearches == 53

\* user.searchHistory.length > 50, slice(-50)
HistoryLimit == 50

\* slice(0, 20) of GET /search-history
ShownLimit == 20

\* a variant that keeps the first 50 entries instead of the last
KeepLast_First(history) ==
  IF Len(history) > HistoryLimit
  THEN SubSeq(history, 1, HistoryLimit)
  ELSE history

\* if (user.searchHistory.length > 50) user.searchHistory = user.searchHistory.slice(-50)
KeepLast(history) ==
  IF Len(history) > HistoryLimit
  THEN SubSeq(history, Len(history) - HistoryLimit + 1, Len(history))
  ELSE history

\* sort((a, b) => b.timestamp - a.timestamp).slice(0, 20) on a history whose
\* timestamps ascend
RecentSearches(history) ==
  LET n == IF Len(history) < ShownLimit THEN Len(history) ELSE ShownLimit
  IN  [i \in 1..n |-> history[Len(history) - i + 1]]

HistOutcome(history, clock, status, shown) ==
  [searchHistory |-> history, searchClock |-> clock,
   response |-> [status |-> status, searchHistory |-> shown]]

\* POST /api/search/advanced: 500 when the body has no filters, the user of
\* the token is gone or an aggregation fails; otherwise the search is
\* pushed, the history cut to its last 50 entries and saved
advancedSearch(req, history, clock) ==
  IF ~req.hasFilters \/ ~req.userFound \/ ~req.storeAnswers
  THEN HistOutcome(history, clock, 500, <<>>)
  ELSE HistOutcome(KeepLast(Append(history, clock + 1)), clock + 1, 200, <<>>)

\* GET /api/users/search-history
getSearchHistory(req, history, clock) ==
  IF ~req.userFound
  THEN HistOutcome(history, clock, 500, <<>>)
  ELSE HistOutcome(history, clock, 200, RecentSearches(history))

\* DELETE /api/users/search-history
clearSearchHistory(req, history, clock) ==
  IF ~req.storeAnswers
  THEN HistOutcome(history, clock, 500, <<>>)
  ELSE IF ~req.userFound
       THEN HistOutcome(history, clock, 200, <<>>)
       ELSE HistOutcome(<<>>, clock, 200, <<>>)

HistRequests(route) ==
  [route : {route}, hasFilters : BOOLEAN, userFound : BOOLEAN, storeAnswers : BOOLEAN]

HistoryInit ==
  /\ searchHistory = <<>>
  /\ searchClock = 0
  /\ histRequest = IdleHistRequest
  /\ histResponse = NoHistResponse
  /\ rentInput = IdleRentInput
  /\ rentResult = NoEstimate
  /\ scoreInput = IdleScoreInput
  /\ scoreResult = NoScore
  /\ query = IdleQuery
  /\ filters = NotParsed
  /\ properties = {}
  /\ storeFails = FALSE
  /\ recRequest = IdleRequest
  /\ recResponse = NoResponse
  /\ marketLocation = IdleLocation
  /\ marketResult = NoMarketData
  /\ propertyDoc = IdlePropertyDoc
  /\ nextImageId = 1
  /\ updRequest = IdleUpdate
  /\ updResponse = NoUpdateResponse
  /\ searchRequest = IdleSearch
  /\ searchResponse = NoSearchResponse
  /\ savedProperties = NoSavedProperties
  /\ saves = NoSaves
  /\ inflight = NoRequests
  /\ openaiConfigured = FALSE
  /\ openaiQuotaExceeded = FALSE
  /\ envQuotaExceeded = FALSE
  /\ aiRequest = IdleAiRequest
  /\ aiResponse = NoAiResponse
  /\ messages = NoMessages
  /\ msgRequest = IdleMsgRequest
  /\ msgResponse = NoMsgResponse
  /\ user = Null
  /\ token = Null
  /\ loading = TRUE
  /\ storedToken = Null
  /\ effectDue = FALSE
  /\ pendingChecks = 0
  /\ authResult = NoAuthResult

AdvancedSearch ==
  /\ searchClock < MaxSearches
  /\ \E req \in HistRequests("advanced") :
       LET out == advancedSearch(req, searchHistory, searchClock)
       IN  /\ histRequest' = req
           /\ searchHistory' = out.searchHistory
           /\ searchClock' = out.searchClock
           /\ histResponse' = out.response
  /\ UNCHANGED notHistoryVars

GetSearchHistory ==
  /\ \E req \in HistRequests("get") :
       LET out == getSearchHistory(req, searchHistory, searchClock)
       IN  /\ histRequest' = req
           /\ searchHistory' = out.searchHistory
           /\ searchClock' = out.searchClock
           /\ histResponse' = out.response
  /\ UNCHANGED notHistoryVars

ClearSearchHistory ==
  /\ \E req \in HistRequests("clear") :
       LET out == clearSearchHistory(req, searchHistory, searchClock)
       IN  /\ histRequest' = req
           /\ searchHistory' = out.searchHistory
           /\ searchClock' = out.searchClock
           /\ histResponse' = out.response
  /\ UNCHANGED notHistoryVars

HistoryNext ==
  \/ AdvancedSearch
  \/ GetSearchHistory
  \/ ClearSearchHistory

\* the entries are consecutive recorded searches, oldest first, ending with
\* the latest one recorded since the history was cleared
MostRecentInOrder ==
  \A i \in 1..Len(searchHistory) :
    searchHistory[i] = searchHistory[Len(searchHistory)] - Len(searchHistory) + i

Served(route) ==
  /\ histRequest'.route = route
  /\ histResponse'.status = 200
  /\ histRequest'.userFound

\* a served search is the last entry and lengthens the history by one up to
\* the limit; a served clear empties it
SearchRecordedLast ==
  /\ Served("advanced") =>
       /\ searchHistory'[Len(searchHistory')] = searchClock'
       /\ searchClock' = searchClock + 1
       /\ Len(searchHistory') =
            (IF Len(searchHistory) < HistoryLimit THEN Len(searchHistory) + 1
             ELSE HistoryLimit)
  /\ Served("clear") => searchHistory' = <<>>

RentSpec == RentInit /\ [][RentNext]_vars

ScoreSpec == ScoreInit /\ [][ScoreNext]_vars

ParseSpec == ParseInit /\ [][ParseNext]_vars

RecommendSpec == RecommendInit /\ [][RecommendNext]_vars

MarketSpec == MarketInit /\ [][MarketNext]_vars

UpdateSpec == UpdateInit /\ [][UpdateNext]_vars

SearchSpec == SearchInit /\ [][SearchNext]_vars

SaveSpec == SaveInit /\ [][SaveNext]_vars

SaveSeqSpec == SaveSeqInit /\ [][SaveSeqNext]_vars

AiSpec == AiInit /\ [][AiNext]_vars

MessageSpec == MessageInit /\ [][MessageNext]_vars

AuthSpec == AuthInit /\ [][AuthNext]_vars

HistorySpec == HistoryInit /\ [][HistoryNext]_vars

====
